---------------------------- MODULE Spec2Model ----------------------------
(***************************************************************************)
(* State-machine model of the streaming indicators and the breakout        *)
(* decision routines of trading_strat.                                     *)
(*                                                                         *)
(*   HL*   src/indicators/high_low_hist.py  HighLowDailyHistIndicator      *)
(*   BS*   src/breakout.py                  BreakoutStrategy               *)
(*   V2*   src/breakoutv2.py                BreakoutV2 and its level       *)
(*                                          indicator                      *)
(*   MMR*  src/indicators/momentum_mean_reversion_nautilus.py              *)
(*   RK*   src/indicators/renko_trend_nautilus.py                          *)
(*   EMA*  src/indicators/ema_indicator_nautilus.py                        *)
(*                                                                         *)
(* Prices are integers (ticks).  A Python Optional is a sequence of length *)
(* 0 (None) or 1 (the value).  A float that is not on the integer grid is a *)
(* fraction <<numerator, denominator>> in lowest terms, denominator > 0.   *)
(***************************************************************************)
EXTENDS Integers, Sequences, FiniteSets, TLC

VARIABLES
    \* ---- HighLowDailyHistIndicator (four lookbacks) ----
    hl_cfg,          \* the four lookbacks given to __init__
    hl_highs,        \* self._highs   (ring buffer, slot i is hl_highs[i+1])
    hl_lows,         \* self._lows
    hl_next_idx,     \* self._next_idx
    hl_initialized,  \* self.initialized
    hl_value,        \* self.value: None or (entry_high, entry_low, exit_high, exit_low)
    hl_count,        \* history: handle_bar calls since construction / reset
    hl_recent        \* history: the last HLMaxLookback+1 bars handled, newest last

hlVars == <<hl_cfg, hl_highs, hl_lows, hl_next_idx, hl_initialized, hl_value,
            hl_count, hl_recent>>

VARIABLES
    \* ---- the decision routines ----
    strategy,        \* which strategy class is running: "BreakoutStrategy" or "BreakoutV2"
    bs_cfg,          \* BreakoutStrategy: lookbacks and the indicator's window
    bs_daily_highs,  \* self._daily_highs
    bs_daily_lows,   \* self._daily_lows
    bs_daily_closes, \* self._daily_closes
    bs_signals,      \* self._indicator_value and the four levels (None is NaN)
    bs_position,     \* self.position
    v2_cfg,          \* BreakoutV2Config: the four lookbacks
    v2_enter,        \* self.high_low_enter (fed by the main instrument's daily bars)
    v2_exit,         \* self.high_low_exit  (fed by the reverse instrument's daily bars)
    v2_fed,          \* history: the last lookback daily bars fed to each of the two
    dec              \* history: what the last handler call read and the orders it submitted

decVars == <<strategy, bs_cfg, bs_daily_highs, bs_daily_lows, bs_daily_closes,
             bs_signals, bs_position, v2_cfg, v2_enter, v2_exit, v2_fed, dec>>

VARIABLES
    \* ---- MomentumMeanReversionNautilusIndicator ----
    mmr_cfg,         \* the parameters given to __init__
    mmr_prices,      \* self._prices
    mmr_volumes,     \* self._volumes
    mmr_initialized, \* self.initialized
    mmr_value,       \* self.value: None or a fraction
    mmr_count,       \* history: handle_bar calls since construction / reset
    mmr_fed          \* history: the bars handled since construction / reset

mmrVars == <<mmr_cfg, mmr_prices, mmr_volumes, mmr_initialized, mmr_value, mmr_count,
             mmr_fed>>

VARIABLES
    \* ---- RenkoTrendNautilusIndicator ----
    rk_cfg,          \* the parameters given to __init__
    rk_prev_close,   \* self._prev_close
    rk_tr_window,    \* self._tr_window
    rk_atr,          \* self._atr: None or a fraction
    rk_box,          \* self._box
    rk_begin_price,  \* self._begin_price
    rk_trend,        \* self._trend
    rk_iopen,        \* self._iopen
    rk_iclose,       \* self._iclose
    rk_initialized,  \* self.initialized
    rk_value,        \* self.value
    rk_count,        \* history: handle_bar calls since construction / reset
    rk_last          \* history: the last bar and the fields as they were when it arrived

rkVars == <<rk_cfg, rk_prev_close, rk_tr_window, rk_atr, rk_box, rk_begin_price,
            rk_trend, rk_iopen, rk_iclose, rk_initialized, rk_value, rk_count, rk_last>>

VARIABLES
    \* ---- EMASignalIndicator ----
    emas_period,      \* self.period
    emas_inner,       \* self._ema: count, value and initialized of the wrapped EMA
    emas_initialized, \* self.initialized
    emas_value,       \* self.value
    emas_before_reset \* history: handle_bar calls made before the last reset()

emaVars == <<emas_period, emas_inner, emas_initialized, emas_value, emas_before_reset>>

VARIABLES
    \* ---- MomentumMeanReversionIndicator (TrendIndicator) ----
    mmi_cfg,         \* the constructor's config
    mmi_price_data,  \* the price_data array of the last calculate call
    mmi_volume_data, \* the volume_data array of the last calculate call
    mmi_result,      \* what that call returned: None before the first call
    \* ---- EMAIndicator (TrendIndicator) ----
    emc_period,      \* self.ema_period
    emc_prices,      \* the prices array of the last _calculate_ema call
    emc_ema,         \* what that call returned: None before the first call
    emc_signal       \* what calculate returned for the same prices: None before the first call

mmiVars == <<mmi_cfg, mmi_price_data, mmi_volume_data, mmi_result>>

emcVars == <<emc_period, emc_prices, emc_ema, emc_signal>>

VARIABLES
    \* ---- tick handlers of the indicators ----
    tick_raised      \* history: the error the last call raised, None if it raised none

tickVars == <<tick_raised>>

VARIABLES
    \* ---- constructors ----
    ctor_call        \* history: the last __init__ call, its arguments and its outcome

ctorVars == <<ctor_call>>

VARIABLES
    \* ---- BreakoutStrategy, long runs of daily bars ----
    bsd_daily_volumes, \* self._daily_volumes
    bsd_bar_count,     \* self._bar_count
    bsd_bars,          \* history: every daily bar of the primary instrument so far
    bsd_calc_args      \* history: the arguments of the last indicator.calculate call

bsdVars == <<bsd_daily_volumes, bsd_bar_count, bsd_bars, bsd_calc_args>>

VARIABLES
    \* ---- observations of single runs ----
    rk_open,         \* history: the open of the last bar the Renko indicator handled
    pf               \* the venue's portfolio: net positions, orders not yet filled

obsVars == <<rk_open, pf>>

vars == <<hlVars, decVars, mmrVars, rkVars, emaVars, mmiVars, emcVars, tickVars,
          ctorVars, bsdVars, obsVars>>

----------------------------------------------------------------------------
(* Optional values and small helpers                                        *)

None == <<>>

Some(x) == <<x>>

IsNone(o) == o = <<>>

Get(o) == o[1]

Max2(a, b) == IF a >= b THEN a ELSE b

Min2(a, b) == IF a <= b THEN a ELSE b

SetMax(S) == CHOOSE x \in S : \A y \in S : x >= y

SetMin(S) == CHOOSE x \in S : \A y \in S : x <= y

\* The last n elements of a sequence (all of it when it is shorter).
LastN(s, n) == IF Len(s) <= n THEN s ELSE SubSeq(s, Len(s) - n + 1, Len(s))

Abs(a) == IF a >= 0 THEN a ELSE -a

RECURSIVE SeqSum(_)
SeqSum(s) == IF Len(s) = 0 THEN 0 ELSE s[1] + SeqSum(Tail(s))

\* sum(p * v for p, v in zip(ps, vs))
RECURSIVE SeqDot(_, _)
SeqDot(ps, vs) ==
    IF Len(ps) = 0 THEN 0 ELSE ps[1] * vs[1] + SeqDot(Tail(ps), Tail(vs))

RECURSIVE Gcd(_, _)
Gcd(a, b) == IF b = 0 THEN a ELSE Gcd(b, a % b)

\* The float n / d (d # 0) as a fraction in lowest terms.
Frac(n, d) ==
    LET g == Gcd(Abs(n), Abs(d))
        sgn == IF d < 0 THEN -1 ELSE 1
    IN  << (sgn * n) \div g, (sgn * d) \div g >>

FracMul(x, y) == Frac(x[1] * y[1], x[2] * y[2])

\* x < y, x <= y on fractions
FracLess(x, y) == x[1] * y[2] < y[1] * x[2]

FracLeq(x, y) == x[1] * y[2] <= y[1] * x[2]

FracAdd(x, y) == Frac(x[1] * y[2] + y[1] * x[2], x[2] * y[2])

FracSub(x, y) == Frac(x[1] * y[2] - y[1] * x[2], x[2] * y[2])

FracAbs(x) == <<Abs(x[1]), x[2]>>

FracMax(x, y) == IF FracLess(x, y) THEN y ELSE x

\* k * x for an integer k
FracScale(k, x) == Frac(k * x[1], x[2])

\* x // y for y > 0: the floor of x / y
FracFloorDiv(x, y) == (x[1] * y[2]) \div (x[2] * y[1])

----------------------------------------------------------------------------
(* Bounds                                                                   *)

\* Largest lookback a configuration may name.
HLMaxLookback == 3

\* handle_bar calls between two resets.
HLMaxBars == 6

\* Price levels of the bars fed to the level indicator.
HLPrices == {1, 2}

HLBars == {b \in [high : HLPrices, low : HLPrices] : b.low <= b.high}

----------------------------------------------------------------------------
(* HighLowDailyHistIndicator, src/indicators/high_low_hist.py               *)

HLConfigs ==
    [enter_high_lookback : 1..HLMaxLookback, enter_low_lookback : 1..HLMaxLookback,
     exit_high_lookback : 1..HLMaxLookback, exit_low_lookback : 1..HLMaxLookback]

\* self._max_lookback
HLMaxLookbackOf(c) ==
    Max2(Max2(c.enter_high_lookback, c.enter_low_lookback),
         Max2(c.exit_high_lookback, c.exit_low_lookback))

\* The loop of max_last: k more slots to scan backwards from slot idx.
RECURSIVE HLScanMax(_, _, _, _, _)
HLScanMax(buf, m, idx, best, k) ==
    IF k = 0 THEN best
    ELSE LET i == (idx - 1) % m
             v == buf[i + 1]
         IN  HLScanMax(buf, m, i,
                       IF ~IsNone(v) /\ ~IsNone(best) /\ Get(v) > Get(best)
                       THEN v ELSE best,
                       k - 1)

\* The loop of min_last.
RECURSIVE HLScanMin(_, _, _, _, _)
HLScanMin(buf, m, idx, best, k) ==
    IF k = 0 THEN best
    ELSE LET i == (idx - 1) % m
             v == buf[i + 1]
         IN  HLScanMin(buf, m, i,
                       IF ~IsNone(v) /\ ~IsNone(best) /\ Get(v) < Get(best)
                       THEN v ELSE best,
                       k - 1)

\* Mutant of HLMaxLast: the scan starts at the write cursor (one slot late).
HLMaxLast_Mut(highs, next_idx, m, n) ==
    LET idx == next_idx % m
    IN  HLScanMax(highs, m, idx, highs[idx + 1], n - 1)

\* max_last(n): the newest n slots, starting one before the write cursor.
HLMaxLast(highs, next_idx, m, n) ==
    LET idx == (next_idx - 1) % m
    IN  HLScanMax(highs, m, idx, highs[idx + 1], n - 1)

\* Mutant of HLMinLast: the scan starts at the write cursor (one slot late).
HLMinLast_Mut(lows, next_idx, m, n) ==
    LET idx == next_idx % m
    IN  HLScanMin(lows, m, idx, lows[idx + 1], n - 1)

\* min_last(n)
HLMinLast(lows, next_idx, m, n) ==
    LET idx == (next_idx - 1) % m
    IN  HLScanMin(lows, m, idx, lows[idx + 1], n - 1)

\* The value tuple computed at the top of handle_bar.
HLLevels(c, highs, lows, next_idx) ==
    LET m == HLMaxLookbackOf(c)
    IN  << HLMaxLast(highs, next_idx, m, c.enter_high_lookback),
           HLMinLast(lows, next_idx, m, c.enter_low_lookback),
           HLMaxLast(highs, next_idx, m, c.exit_high_lookback),
           HLMinLast(lows, next_idx, m, c.exit_low_lookback) >>

\* Mutant of HLInitNow: initialised one bar early.
HLInitNow_Mut(initialized, next_idx, m) ==
    ~initialized /\ next_idx = Max2(m - 2, 0)

\* The test that sets initialized in handle_bar.
HLInitNow(initialized, next_idx, m) ==
    ~initialized /\ next_idx = m - 1

\* __init__ (the lookbacks are already validated: each is >= 1).
HLConstruct ==
    /\ hl_cfg \in HLConfigs
    /\ hl_highs = [i \in 1..HLMaxLookbackOf(hl_cfg) |-> None]
    /\ hl_lows = [i \in 1..HLMaxLookbackOf(hl_cfg) |-> None]
    /\ hl_next_idx = 0
    /\ hl_initialized = FALSE
    /\ hl_value = None
    /\ hl_count = 0
    /\ hl_recent = <<>>

\* Mutant of HLHandleBar: the levels are computed after the flag is updated, so
\* the bar that completes the window already reports a value.
HLHandleBar_Mut(bar) ==
    LET m == HLMaxLookbackOf(hl_cfg)
        init2 == hl_initialized \/ HLInitNow(hl_initialized, hl_next_idx, m)
    IN  /\ hl_count < HLMaxBars
        /\ hl_value' = IF init2
                       THEN Some(HLLevels(hl_cfg, hl_highs, hl_lows, hl_next_idx))
                       ELSE hl_value
        /\ hl_highs' = [hl_highs EXCEPT ![hl_next_idx + 1] = Some(bar.high)]
        /\ hl_lows' = [hl_lows EXCEPT ![hl_next_idx + 1] = Some(bar.low)]
        /\ hl_initialized' = init2
        /\ hl_next_idx' = (hl_next_idx + 1) % m
        /\ hl_count' = hl_count + 1
        /\ hl_recent' = LastN(Append(hl_recent, bar), HLMaxLookback + 1)
        /\ UNCHANGED hl_cfg

\* Mutant of HLHandleBar: the bar is written into the buffers before the
\* levels are computed, so the bar being handled takes part in its own levels.
HLHandleBar_MutInsert(bar) ==
    LET m == HLMaxLookbackOf(hl_cfg)
        highs == [hl_highs EXCEPT ![hl_next_idx + 1] = Some(bar.high)]
        lows == [hl_lows EXCEPT ![hl_next_idx + 1] = Some(bar.low)]
    IN  /\ hl_count < HLMaxBars
        /\ hl_value' = IF hl_initialized
                       THEN Some(HLLevels(hl_cfg, highs, lows, (hl_next_idx + 1) % m))
                       ELSE hl_value
        /\ hl_highs' = highs
        /\ hl_lows' = lows
        /\ hl_initialized' = IF HLInitNow(hl_initialized, hl_next_idx, m)
                             THEN TRUE ELSE hl_initialized
        /\ hl_next_idx' = (hl_next_idx + 1) % m
        /\ hl_count' = hl_count + 1
        /\ hl_recent' = LastN(Append(hl_recent, bar), HLMaxLookback + 1)
        /\ UNCHANGED hl_cfg

\* Mutant of HLHandleBar: the ring index advances without wrapping around.
HLHandleBar_MutIndex(bar) ==
    LET m == HLMaxLookbackOf(hl_cfg)
    IN  /\ hl_count < HLMaxBars
        /\ hl_value' = IF hl_initialized
                       THEN Some(HLLevels(hl_cfg, hl_highs, hl_lows, hl_next_idx))
                       ELSE hl_value
        /\ hl_highs' = [hl_highs EXCEPT ![hl_next_idx + 1] = Some(bar.high)]
        /\ hl_lows' = [hl_lows EXCEPT ![hl_next_idx + 1] = Some(bar.low)]
        /\ hl_initialized' = IF HLInitNow(hl_initialized, hl_next_idx, m)
                             THEN TRUE ELSE hl_initialized
        /\ hl_next_idx' = hl_next_idx + 1
        /\ hl_count' = hl_count + 1
        /\ hl_recent' = LastN(Append(hl_recent, bar), HLMaxLookback + 1)
        /\ UNCHANGED hl_cfg

\* handle_bar(bar)
HLHandleBar(bar) ==
    LET m == HLMaxLookbackOf(hl_cfg)
    IN  /\ hl_count < HLMaxBars
        /\ hl_value' = IF hl_initialized
                       THEN Some(HLLevels(hl_cfg, hl_highs, hl_lows, hl_next_idx))
                       ELSE hl_value
        /\ hl_highs' = [hl_highs EXCEPT ![hl_next_idx + 1] = Some(bar.high)]
        /\ hl_lows' = [hl_lows EXCEPT ![hl_next_idx + 1] = Some(bar.low)]
        /\ hl_initialized' = IF HLInitNow(hl_initialized, hl_next_idx, m)
                             THEN TRUE ELSE hl_initialized
        /\ hl_next_idx' = (hl_next_idx + 1) % m
        /\ hl_count' = hl_count + 1
        /\ hl_recent' = LastN(Append(hl_recent, bar), HLMaxLookback + 1)
        /\ UNCHANGED hl_cfg

\* reset()
HLReset ==
    LET m == HLMaxLookbackOf(hl_cfg)
    IN  /\ hl_highs' = [i \in 1..m |-> None]
        /\ hl_lows' = [i \in 1..m |-> None]
        /\ hl_next_idx' = 0
        /\ hl_value' = None
        /\ hl_initialized' = FALSE
        /\ hl_count' = 0
        /\ hl_recent' = <<>>
        /\ UNCHANGED hl_cfg

HLFeed == \E bar \in HLBars : HLHandleBar(bar)

----------------------------------------------------------------------------
(* Inputs of the decision routines                                          *)

\* Daily bars a BreakoutStrategy run may receive.
BSMaxDays == 2

\* Price levels of the minute / hour bars the decision routines see.
DecPrices == {1, 2, 3}

\* Bars with low <= close <= high.
DecBars == {b \in [high : DecPrices, low : DecPrices, close : DecPrices] :
               b.low <= b.close /\ b.close <= b.high}

\* Price levels of the daily bars of BreakoutStrategy.
BSDailyPrices == {1, 2}

BSDailyBars == {b \in [high : BSDailyPrices, low : BSDailyPrices,
                       close : BSDailyPrices] :
                   b.low <= b.close /\ b.close <= b.high}

\* _check_minute_breakouts never reads the close of the minute bar: one close
\* for each (high, low) is enough.
BSMinuteBars == {b \in DecBars : b.close = b.low}

\* Daily bars of BreakoutV2: the level indicator reads high and low only.
V2DailyBars == {b \in [high : DecPrices, low : DecPrices] : b.low <= b.high}

\* Net positions the portfolio may report (negative: a SHORT position is open).
DecPositions == {-1, 0, 1}

\* Account balances the portfolio may report.
DecBalances == {0, 5}

\* Values of the EMA: for every close of DecPrices one below it and one not.
DecEmaValues == {0, 3}

\* Last minute closes of the main and the reverse instrument.
DecLastPx == {<<1, 2>>, <<2, 1>>}

\* Results of TrendIndicator.calculate: NaN (None) or a signed value.
DecSignals == {None, Some(-1), Some(0), Some(1)}

\* A market order handed to submit_order / close_position.
Order(kind, instrument, side, qty) ==
    [kind |-> kind, instrument |-> instrument, side |-> side, qty |-> qty]

\* What a handler call read and did; NoDecision after a call that is not a
\* decision bar.  balance and size_px (a fraction) are the account balance and
\* the sizing price an entry read, None when the call sized no entry;
\* ema_initialized is the flag of the EMA that BreakoutV2 read.
NoDecision ==
    [routine |-> "none", decided |-> FALSE, high |-> 0, low |-> 0, close |-> 0,
     main_pos |-> 0, hedge_pos |-> 0, bullish |-> FALSE, bearish |-> FALSE,
     entry_high |-> None, entry_low |-> None, exit_high |-> None, exit_low |-> None,
     balance |-> None, size_px |-> None, ema_initialized |-> FALSE, orders |-> <<>>]

----------------------------------------------------------------------------
(* BreakoutStrategy, src/breakout.py                                        *)
(* on_start has run and identified both instruments; the cache holds one   *)
(* account and at most one open position per instrument.  _bar_count and   *)
(* _daily_volumes only feed logging and the pluggable indicator, whose     *)
(* result is an input here.                                                *)

\* Configurations: lookbacks in the shape of the defaults (fast entry, slow
\* exit for longs; slow entry, fast exit for shorts), its mirror image and the
\* two uniform ones.  window is the indicator's `window` attribute;
\* trade_size_pct is 1.0 (the default) or 0.5.
BSConfig(le, lx, se, sx) ==
    [long_entry_lookback |-> le, long_exit_lookback |-> lx,
     short_entry_lookback |-> se, short_exit_lookback |-> sx, window |-> 1,
     trade_size_pct |-> <<1, 1>>]

BSConfigs ==
    {BSConfig(1, 2, 2, 1), BSConfig(2, 1, 1, 2), BSConfig(1, 1, 1, 1),
     BSConfig(2, 2, 2, 2),
     [BSConfig(1, 1, 1, 1) EXCEPT !.trade_size_pct = <<1, 2>>]}

\* config.get('neutral_threshold', 1e-10): on the integer signal grid
\* v > 1e-10 is v > 0.
BSNeutralThreshold == 0

\* config.get('min_trade_size', 1)
BSMinTradeSize == 1

BSNoSignals ==
    [indicator_value |-> None, highest_high_long |-> None,
     lowest_low_long_exit |-> None, lowest_low_short |-> None,
     highest_high_short_exit |-> None]

\* __init__
BSConstruct(c) ==
    /\ bs_cfg = c
    /\ bs_daily_highs = <<>>
    /\ bs_daily_lows = <<>>
    /\ bs_daily_closes = <<>>
    /\ bs_signals = BSNoSignals
    /\ bs_position = 0

\* Mutant of BSMaxHistory: the lists are trimmed to the longest lookback.
BSMaxHistory_Mut(c) ==
    Max2(Max2(c.window, c.long_entry_lookback),
         Max2(Max2(c.short_entry_lookback, c.long_exit_lookback),
              c.short_exit_lookback))

\* max_history in _on_daily_bar
BSMaxHistory(c) ==
    Max2(Max2(c.window, c.long_entry_lookback),
         Max2(Max2(c.short_entry_lookback, c.long_exit_lookback),
              c.short_exit_lookback)) + 10

\* max(xs[-(lookback+1):-1]) / min(...): the lookback entries before the last one.
BSWindowBefore(xs, lookback) ==
    {xs[i] : i \in (Len(xs) - lookback)..(Len(xs) - 1)}

\* _calculate_daily_signals; ind_out is the result of indicator.calculate on
\* the closes and volumes before the newest bar.
BSCalculateDailySignals(c, sig, highs, lows, closes, ind_out) ==
    IF Len(closes) < c.window + 1 THEN sig
    ELSE [indicator_value |-> ind_out,
          highest_high_long |->
              IF Len(highs) > c.long_entry_lookback
              THEN Some(SetMax(BSWindowBefore(highs, c.long_entry_lookback)))
              ELSE sig.highest_high_long,
          lowest_low_long_exit |->
              IF Len(lows) > c.long_exit_lookback
              THEN Some(SetMin(BSWindowBefore(lows, c.long_exit_lookback)))
              ELSE sig.lowest_low_long_exit,
          lowest_low_short |->
              IF Len(lows) > c.short_entry_lookback
              THEN Some(SetMin(BSWindowBefore(lows, c.short_entry_lookback)))
              ELSE sig.lowest_low_short,
          highest_high_short_exit |->
              IF Len(highs) > c.short_exit_lookback
              THEN Some(SetMax(BSWindowBefore(highs, c.short_exit_lookback)))
              ELSE sig.highest_high_short_exit]

\* _on_daily_bar for a bar of the primary instrument.
BSOnDailyBar(bar, ind_out) ==
    LET h == BSMaxHistory(bs_cfg)
        highs == LastN(Append(bs_daily_highs, bar.high), h)
        lows == LastN(Append(bs_daily_lows, bar.low), h)
        closes == LastN(Append(bs_daily_closes, bar.close), h)
    IN  /\ Len(bs_daily_closes) < BSMaxDays
        /\ bs_daily_highs' = highs
        /\ bs_daily_lows' = lows
        /\ bs_daily_closes' = closes
        /\ bs_signals' = BSCalculateDailySignals(bs_cfg, bs_signals, highs, lows,
                                                 closes, ind_out)
        /\ dec' = NoDecision
        /\ UNCHANGED <<strategy, bs_cfg, bs_position, v2_cfg, v2_enter, v2_exit, v2_fed>>

\* _calculate_position_size(price) for price = num / den:
\* max(int(balance / price), min_trade_size)
BSPositionSize(balance, num, den) ==
    Max2((balance * den) \div num, BSMinTradeSize)

\* The position update at the top of _check_minute_breakouts.
BSTrackedPosition(voo_pos, sh_pos) ==
    IF voo_pos > 0 THEN 1 ELSE IF sh_pos > 0 THEN -1 ELSE 0

\* The if / elif chain of _check_minute_breakouts: the one action it takes.
BSBranch(position, sig, is_bullish, is_bearish, high, low) ==
    IF position = 1 /\ ~IsNone(sig.lowest_low_long_exit)
    THEN (IF low < Get(sig.lowest_low_long_exit) THEN "exit_primary" ELSE "none")
    ELSE IF position = -1 /\ ~IsNone(sig.highest_high_short_exit)
    THEN (IF high > Get(sig.highest_high_short_exit) THEN "exit_hedge" ELSE "none")
    ELSE IF position = 0
    THEN (IF is_bullish /\ ~IsNone(sig.highest_high_long)
          THEN (IF high > Get(sig.highest_high_long) THEN "enter_primary" ELSE "none")
          ELSE IF is_bearish /\ ~IsNone(sig.lowest_low_short)
          THEN (IF low < Get(sig.lowest_low_short) THEN "enter_hedge" ELSE "none")
          ELSE "none")
    ELSE "none"

\* The order submitted by the _execute_market_* method of a branch.
BSOrderOf(branch, voo_pos, sh_pos, balance, price) ==
    CASE branch = "exit_primary" -> <<Order("exit_primary", "main", "SELL", voo_pos)>>
      [] branch = "exit_hedge" -> <<Order("exit_hedge", "hedge", "SELL", sh_pos)>>
      [] branch = "enter_primary" ->
            <<Order("enter_primary", "main", "BUY", BSPositionSize(balance, price, 1))>>
      [] branch = "enter_hedge" ->
            <<Order("enter_hedge", "hedge", "BUY", BSPositionSize(balance, price, 4))>>
      [] OTHER -> <<>>

\* self.position after a branch.
BSPositionAfter(branch, position) ==
    CASE branch \in {"exit_primary", "exit_hedge"} -> 0
      [] branch = "enter_primary" -> 1
      [] branch = "enter_hedge" -> -1
      [] OTHER -> position

\* Mutant of BSOrders: the entry test is an `if` of its own, run again with the
\* position an exit has just set to 0.
BSOrders_Mut(sig, closes, voo_pos, sh_pos, balance, high, low) ==
    LET position == BSTrackedPosition(voo_pos, sh_pos)
        is_bullish == Get(sig.indicator_value) > BSNeutralThreshold
        is_bearish == Get(sig.indicator_value) < -BSNeutralThreshold
        price == closes[Len(closes)]
        b1 == BSBranch(position, sig, is_bullish, is_bearish, high, low)
        p1 == BSPositionAfter(b1, position)
        b2 == IF b1 \in {"exit_primary", "exit_hedge"}
              THEN BSBranch(p1, sig, is_bullish, is_bearish, high, low) ELSE "none"
    IN  BSOrderOf(b1, voo_pos, sh_pos, balance, price)
          \o BSOrderOf(b2, voo_pos, sh_pos, balance, price)

\* Mutant of BSOrders: the entry does not look at the indicator.
BSOrders_MutSignal(sig, closes, voo_pos, sh_pos, balance, high, low) ==
    LET position == BSTrackedPosition(voo_pos, sh_pos)
        price == closes[Len(closes)]
    IN  BSOrderOf(BSBranch(position, sig, TRUE, FALSE, high, low),
                  voo_pos, sh_pos, balance, price)

\* The orders a call of _check_minute_breakouts submits once the indicator
\* value is known.
BSOrders(sig, closes, voo_pos, sh_pos, balance, high, low) ==
    LET position == BSTrackedPosition(voo_pos, sh_pos)
        is_bullish == Get(sig.indicator_value) > BSNeutralThreshold
        is_bearish == Get(sig.indicator_value) < -BSNeutralThreshold
        price == closes[Len(closes)]
    IN  BSOrderOf(BSBranch(position, sig, is_bullish, is_bearish, high, low),
                  voo_pos, sh_pos, balance, price)

\* _check_minute_breakouts for a minute bar of the primary instrument; the net
\* positions and the balance are what the cache reports during the call.
BSCheckMinuteBreakouts(bar, voo_pos, sh_pos, balance) ==
    /\ IF IsNone(bs_signals.indicator_value)
       THEN /\ dec' = [NoDecision EXCEPT !.routine = "BreakoutStrategy",
                          !.high = bar.high, !.low = bar.low, !.close = bar.close,
                          !.main_pos = voo_pos, !.hedge_pos = sh_pos]
            /\ UNCHANGED bs_position
       ELSE LET position == BSTrackedPosition(voo_pos, sh_pos)
                v == Get(bs_signals.indicator_value)
                orders == BSOrders(bs_signals, bs_daily_closes, voo_pos, sh_pos,
                                   balance, bar.high, bar.low)
                entered == Len(orders) > 0
                           /\ orders[1].kind \in {"enter_primary", "enter_hedge"}
            IN  /\ dec' = [routine |-> "BreakoutStrategy", decided |-> TRUE,
                           high |-> bar.high, low |-> bar.low, close |-> bar.close,
                           main_pos |-> voo_pos, hedge_pos |-> sh_pos,
                           bullish |-> v > BSNeutralThreshold,
                           bearish |-> v < -BSNeutralThreshold,
                           entry_high |-> bs_signals.highest_high_long,
                           entry_low |-> bs_signals.lowest_low_short,
                           exit_high |-> bs_signals.highest_high_short_exit,
                           exit_low |-> bs_signals.lowest_low_long_exit,
                           balance |-> IF entered THEN Some(balance) ELSE None,
                           size_px |-> IF ~entered THEN None
                                       ELSE IF orders[1].kind = "enter_primary"
                                       THEN Some(<<bs_daily_closes[Len(bs_daily_closes)], 1>>)
                                       ELSE Some(<<bs_daily_closes[Len(bs_daily_closes)], 4>>),
                           ema_initialized |-> FALSE,
                           orders |-> orders]
                /\ bs_position' =
                     BSPositionAfter(
                        BSBranch(position, bs_signals, v > BSNeutralThreshold,
                                 v < -BSNeutralThreshold, bar.high, bar.low),
                        position)
    /\ UNCHANGED <<strategy, bs_cfg, bs_daily_highs, bs_daily_lows, bs_daily_closes,
                   bs_signals, v2_cfg, v2_enter, v2_exit, v2_fed>>

\* The harness delivers a bar to strategy s once the previous handler call
\* has returned (bars are processed to completion, one at a time).
DecReady(s) == strategy = s /\ dec = NoDecision

BSDailyBar ==
    /\ DecReady("BreakoutStrategy")
    /\ \E bar \in BSDailyBars, ind_out \in DecSignals : BSOnDailyBar(bar, ind_out)

BSMinuteBar ==
    /\ DecReady("BreakoutStrategy")
    /\ \E bar \in DecBars, voo_pos \in DecPositions, sh_pos \in DecPositions,
          balance \in DecBalances :
           BSCheckMinuteBreakouts(bar, voo_pos, sh_pos, balance)

----------------------------------------------------------------------------
(* BreakoutStrategy over a long run of daily bars, src/breakout.py          *)
(* The daily history with its volumes, the arguments of each call of the    *)
(* pluggable indicator and the trimming of the lists to max_history.        *)

\* Primary daily bars of a long run.
BSDMaxDays == 13

\* The last BSDVaryingBars primary bars of a run are arbitrary; the bars
\* before them repeat the first bar.
BSDVaryingBars == 3

\* Daily bars of the other instrument that may arrive between two primary bars.
BSDMaxOtherBars == 1

\* Daily bars with their volume (5 or 6: no volume is also a price).
BSDBars ==
    {b \in [high : BSDailyPrices, low : BSDailyPrices, close : BSDailyPrices,
            volume : {5, 6}] :
        /\ b.low <= b.close /\ b.close <= b.high
        /\ b.volume = 6 => b.high > b.low}

\* Results of indicator.calculate.
BSDIndicatorValues == {Some(0), Some(1)}

\* Lookbacks 1 (max_history 11), lookbacks 1 and 2 (max_history 12) and an
\* indicator window of 2 (signals start with the third bar).
BSDConfigs ==
    {BSConfig(1, 1, 1, 1), BSConfig(1, 2, 2, 1),
     [BSConfig(1, 1, 1, 1) EXCEPT !.window = 2]}

BSDConstruct ==
    /\ bsd_daily_volumes = <<>>
    /\ bsd_bar_count = 0
    /\ bsd_bars = <<>>
    /\ bsd_calc_args = None

\* xs[:-1]
BSDAllButLast(xs) == SubSeq(xs, 1, Len(xs) - 1)

\* _on_daily_bar for a bar of the primary instrument (VOO); ind_out is what
\* indicator.calculate returns for the arguments recorded in bsd_calc_args.
BSDOnDailyBar(bar, ind_out) ==
    LET h == BSMaxHistory(bs_cfg)
        highs == LastN(Append(bs_daily_highs, bar.high), h)
        lows == LastN(Append(bs_daily_lows, bar.low), h)
        closes == LastN(Append(bs_daily_closes, bar.close), h)
        volumes == LastN(Append(bsd_daily_volumes, bar.volume), h)
    IN  /\ bsd_bar_count' = bsd_bar_count + 1
        /\ bs_daily_highs' = highs
        /\ bs_daily_lows' = lows
        /\ bs_daily_closes' = closes
        /\ bsd_daily_volumes' = volumes
        /\ bs_signals' = BSCalculateDailySignals(bs_cfg, bs_signals, highs, lows,
                                                 closes, ind_out)
        /\ bsd_calc_args' =
              IF Len(closes) < bs_cfg.window + 1 THEN bsd_calc_args
              ELSE Some([closes |-> BSDAllButLast(closes),
                         volumes |-> BSDAllButLast(volumes)])
        /\ bsd_bars' = Append(bsd_bars, bar)
        /\ UNCHANGED <<strategy, bs_cfg, bs_position, v2_cfg, v2_enter, v2_exit,
                       v2_fed, dec>>

\* _on_daily_bar for a bar of any other instrument (SH): counted, not stored.
BSDOnOtherDailyBar ==
    /\ bsd_bar_count' = bsd_bar_count + 1
    /\ UNCHANGED <<decVars, bsd_daily_volumes, bsd_bars, bsd_calc_args>>

\* The primary bars the feed may deliver next.
BSDNextBars ==
    IF Len(bsd_bars) >= 1 /\ Len(bsd_bars) < BSDMaxDays - BSDVaryingBars
    THEN {bsd_bars[Len(bsd_bars)]}
    ELSE BSDBars

BSDPrimaryBar ==
    /\ Len(bsd_bars) < BSDMaxDays
    /\ \E bar \in BSDNextBars, ind_out \in BSDIndicatorValues :
          BSDOnDailyBar(bar, ind_out)

BSDOtherBar ==
    /\ Len(bsd_bars) < BSDMaxDays
    /\ bsd_bar_count - Len(bsd_bars) < BSDMaxOtherBars
    /\ BSDOnOtherDailyBar

----------------------------------------------------------------------------
(* BreakoutV2 and its level indicator, src/breakoutv2.py                    *)
(* The EMA is nautilus_trader's ExponentialMovingAverage: its initialized   *)
(* flag and value are inputs of on_hour_bar, as are the portfolio's net     *)
(* positions, the balance and the last minute closes.                      *)

\* BreakoutV2Config.  The defaults are (1, 1, 7, 7).
V2Config(le, se, lx, sx) ==
    [long_entry |-> le, short_entry |-> se, long_exit |-> lx, short_exit |-> sx]

V2Configs == {V2Config(1, 1, 2, 2), V2Config(2, 2, 1, 1), V2Config(1, 1, 1, 1)}

\* HighLowDailyHistIndicator.__init__(lookback)
V2HLNew(lookback) ==
    [lookback |-> lookback,
     highs |-> [i \in 1..lookback |-> None],
     lows |-> [i \in 1..lookback |-> None],
     next_idx |-> 0, initialized |-> FALSE, value |-> None]

\* Mutant of V2HLHandleBar: once initialized, the levels are taken from the
\* buffers as they were before the bar was inserted.
V2HLHandleBar_Mut(ind, bar) ==
    LET highs == [ind.highs EXCEPT ![ind.next_idx + 1] = Some(bar.high)]
        lows == [ind.lows EXCEPT ![ind.next_idx + 1] = Some(bar.low)]
        initialized == ind.initialized \/ (ind.next_idx = ind.lookback - 1)
        src_highs == IF ind.initialized THEN ind.highs ELSE highs
        src_lows == IF ind.initialized THEN ind.lows ELSE lows
    IN  [lookback |-> ind.lookback, highs |-> highs, lows |-> lows,
         next_idx |-> (ind.next_idx + 1) % ind.lookback,
         initialized |-> initialized,
         value |-> IF initialized
                   THEN Some(<< SetMax({Get(src_highs[i]) : i \in 1..ind.lookback}),
                                SetMin({Get(src_lows[i]) : i \in 1..ind.lookback}) >>)
                   ELSE ind.value]

\* Mutant of V2HLHandleBar: the value is computed only when the indicator was
\* initialized before the call.
V2HLHandleBar_MutLate(ind, bar) ==
    LET highs == [ind.highs EXCEPT ![ind.next_idx + 1] = Some(bar.high)]
        lows == [ind.lows EXCEPT ![ind.next_idx + 1] = Some(bar.low)]
        initialized == ind.initialized \/ (ind.next_idx = ind.lookback - 1)
    IN  [lookback |-> ind.lookback, highs |-> highs, lows |-> lows,
         next_idx |-> (ind.next_idx + 1) % ind.lookback,
         initialized |-> initialized,
         value |-> IF ind.initialized
                   THEN Some(<< SetMax({Get(highs[i]) : i \in 1..ind.lookback}),
                                SetMin({Get(lows[i]) : i \in 1..ind.lookback}) >>)
                   ELSE ind.value]

\* HighLowDailyHistIndicator.handle_bar(bar)
V2HLHandleBar(ind, bar) ==
    LET highs == [ind.highs EXCEPT ![ind.next_idx + 1] = Some(bar.high)]
        lows == [ind.lows EXCEPT ![ind.next_idx + 1] = Some(bar.low)]
        initialized == ind.initialized \/ (ind.next_idx = ind.lookback - 1)
    IN  [lookback |-> ind.lookback, highs |-> highs, lows |-> lows,
         next_idx |-> (ind.next_idx + 1) % ind.lookback,
         initialized |-> initialized,
         value |-> IF initialized
                   THEN Some(<< SetMax({Get(highs[i]) : i \in 1..ind.lookback}),
                                SetMin({Get(lows[i]) : i \in 1..ind.lookback}) >>)
                   ELSE ind.value]

\* HighLowDailyHistIndicator.reset()
V2HLReset(ind) ==
    [lookback |-> ind.lookback,
     highs |-> [i \in 1..ind.lookback |-> None],
     lows |-> [i \in 1..ind.lookback |-> None],
     next_idx |-> 0, initialized |-> FALSE, value |-> None]

\* BreakoutV2.__init__: high_low_exit is built with long_entry and
\* high_low_enter with short_exit.
V2Construct(c) ==
    /\ v2_cfg = c
    /\ v2_exit = V2HLNew(c.long_entry)
    /\ v2_enter = V2HLNew(c.short_exit)
    /\ v2_fed = [enter |-> <<>>, exit |-> <<>>]

\* math.floor((balance * 0.95) / px)
V2Quantity(balance, px) == (balance * 19) \div (20 * px)

\* Mutant of V2Orders: the exits are taken only when the EMA regime agrees.
V2Orders_MutExit(close, indicator, main_pos, reverse_pos, high_entry, low_entry, high_exit, low_exit, main_last_px, reverse_last_px, balance) ==
    (IF close < low_exit /\ main_pos > 0 /\ indicator = -1
     THEN <<Order("exit_primary", "main", "SELL", main_pos)>> ELSE <<>>)
    \o (IF close > high_exit /\ reverse_pos > 0 /\ indicator = 1
        THEN <<Order("exit_hedge", "hedge", "SELL", reverse_pos)>> ELSE <<>>)
    \o (IF close > high_entry /\ indicator = 1 /\ main_pos = 0 /\ reverse_pos = 0
        THEN <<Order("enter_primary", "main", "BUY", V2Quantity(balance, main_last_px))>>
        ELSE <<>>)
    \o (IF close < low_entry /\ indicator = -1 /\ reverse_pos = 0 /\ main_pos = 0
        THEN <<Order("enter_hedge", "hedge", "BUY",
                     V2Quantity(balance, reverse_last_px))>>
        ELSE <<>>)

\* Mutant of V2Orders: the entry into the hedge does not test the position of
\* the main instrument.
V2Orders_MutFlat(close, indicator, main_pos, reverse_pos, high_entry, low_entry, high_exit, low_exit, main_last_px, reverse_last_px, balance) ==
    (IF close < low_exit /\ main_pos > 0
     THEN <<Order("exit_primary", "main", "SELL", main_pos)>> ELSE <<>>)
    \o (IF close > high_exit /\ reverse_pos > 0
        THEN <<Order("exit_hedge", "hedge", "SELL", reverse_pos)>> ELSE <<>>)
    \o (IF close > high_entry /\ indicator = 1 /\ main_pos = 0 /\ reverse_pos = 0
        THEN <<Order("enter_primary", "main", "BUY", V2Quantity(balance, main_last_px))>>
        ELSE <<>>)
    \o (IF close < low_entry /\ indicator = -1 /\ reverse_pos = 0
        THEN <<Order("enter_hedge", "hedge", "BUY",
                     V2Quantity(balance, reverse_last_px))>>
        ELSE <<>>)

\* The four `if` statements of on_hour_bar, in order.
V2Orders(close, indicator, main_pos, reverse_pos, high_entry, low_entry, high_exit, low_exit, main_last_px, reverse_last_px, balance) ==
    (IF close < low_exit /\ main_pos > 0
     THEN <<Order("exit_primary", "main", "SELL", main_pos)>> ELSE <<>>)
    \o (IF close > high_exit /\ reverse_pos > 0
        THEN <<Order("exit_hedge", "hedge", "SELL", reverse_pos)>> ELSE <<>>)
    \o (IF close > high_entry /\ indicator = 1 /\ main_pos = 0 /\ reverse_pos = 0
        THEN <<Order("enter_primary", "main", "BUY", V2Quantity(balance, main_last_px))>>
        ELSE <<>>)
    \o (IF close < low_entry /\ indicator = -1 /\ reverse_pos = 0 /\ main_pos = 0
        THEN <<Order("enter_hedge", "hedge", "BUY",
                     V2Quantity(balance, reverse_last_px))>>
        ELSE <<>>)

\* Mutant of V2OnHourBar: the EMA is read without testing its initialized flag.
V2OnHourBar_Mut(bar, ema_initialized, ema_value, main_pos, reverse_pos, main_last_px, reverse_last_px, balance) ==
    /\ IF ~v2_enter.initialized \/ ~v2_exit.initialized
       THEN dec' = [NoDecision EXCEPT !.routine = "BreakoutV2",
                       !.high = bar.high, !.low = bar.low, !.close = bar.close,
                       !.main_pos = main_pos, !.hedge_pos = reverse_pos,
                       !.ema_initialized = ema_initialized]
       ELSE LET high_entry == Get(v2_enter.value)[1]
                low_entry == Get(v2_enter.value)[2]
                high_exit == Get(v2_exit.value)[1]
                low_exit == Get(v2_exit.value)[2]
                indicator == IF bar.close > ema_value THEN 1 ELSE -1
                orders == V2Orders(bar.close, indicator, main_pos, reverse_pos,
                                   high_entry, low_entry, high_exit, low_exit,
                                   main_last_px, reverse_last_px, balance)
                entry == IF Len(orders) = 0 THEN "none" ELSE orders[Len(orders)].kind
            IN  dec' = [routine |-> "BreakoutV2", decided |-> TRUE,
                        high |-> bar.high, low |-> bar.low, close |-> bar.close,
                        main_pos |-> main_pos, hedge_pos |-> reverse_pos,
                        bullish |-> indicator = 1, bearish |-> indicator = -1,
                        entry_high |-> Some(high_entry), entry_low |-> Some(low_entry),
                        exit_high |-> Some(high_exit), exit_low |-> Some(low_exit),
                        balance |-> IF entry \in {"enter_primary", "enter_hedge"}
                                    THEN Some(balance) ELSE None,
                        size_px |-> IF entry = "enter_primary"
                                    THEN Some(<<main_last_px, 1>>)
                                    ELSE IF entry = "enter_hedge"
                                    THEN Some(<<reverse_last_px, 1>>) ELSE None,
                        ema_initialized |-> ema_initialized,
                        orders |-> orders]
    /\ UNCHANGED <<strategy, bs_cfg, bs_daily_highs, bs_daily_lows, bs_daily_closes,
                   bs_signals, bs_position, v2_cfg, v2_enter, v2_exit, v2_fed>>

\* on_hour_bar for an hour bar of the main instrument.
V2OnHourBar(bar, ema_initialized, ema_value, main_pos, reverse_pos, main_last_px, reverse_last_px, balance) ==
    /\ IF ~ema_initialized \/ ~v2_enter.initialized \/ ~v2_exit.initialized
       THEN dec' = [NoDecision EXCEPT !.routine = "BreakoutV2",
                       !.high = bar.high, !.low = bar.low, !.close = bar.close,
                       !.main_pos = main_pos, !.hedge_pos = reverse_pos,
                       !.ema_initialized = ema_initialized]
       ELSE LET high_entry == Get(v2_enter.value)[1]
                low_entry == Get(v2_enter.value)[2]
                high_exit == Get(v2_exit.value)[1]
                low_exit == Get(v2_exit.value)[2]
                indicator == IF bar.close > ema_value THEN 1 ELSE -1
                orders == V2Orders(bar.close, indicator, main_pos, reverse_pos,
                                   high_entry, low_entry, high_exit, low_exit,
                                   main_last_px, reverse_last_px, balance)
                entry == IF Len(orders) = 0 THEN "none" ELSE orders[Len(orders)].kind
            IN  dec' = [routine |-> "BreakoutV2", decided |-> TRUE,
                        high |-> bar.high, low |-> bar.low, close |-> bar.close,
                        main_pos |-> main_pos, hedge_pos |-> reverse_pos,
                        bullish |-> indicator = 1, bearish |-> indicator = -1,
                        entry_high |-> Some(high_entry), entry_low |-> Some(low_entry),
                        exit_high |-> Some(high_exit), exit_low |-> Some(low_exit),
                        balance |-> IF entry \in {"enter_primary", "enter_hedge"}
                                    THEN Some(balance) ELSE None,
                        size_px |-> IF entry = "enter_primary"
                                    THEN Some(<<main_last_px, 1>>)
                                    ELSE IF entry = "enter_hedge"
                                    THEN Some(<<reverse_last_px, 1>>) ELSE None,
                        ema_initialized |-> ema_initialized,
                        orders |-> orders]
    /\ UNCHANGED <<strategy, bs_cfg, bs_daily_highs, bs_daily_lows, bs_daily_closes,
                   bs_signals, bs_position, v2_cfg, v2_enter, v2_exit, v2_fed>>

\* A daily bar of the main instrument: high_low_enter.handle_bar, then
\* on_daily_bar (which does nothing).
V2OnDailyMain(bar) ==
    /\ v2_enter' = V2HLHandleBar(v2_enter, bar)
    /\ v2_fed' = [v2_fed EXCEPT !.enter = LastN(Append(@, bar), v2_enter.lookback)]
    /\ dec' = NoDecision
    /\ UNCHANGED <<strategy, bs_cfg, bs_daily_highs, bs_daily_lows, bs_daily_closes,
                   bs_signals, bs_position, v2_cfg, v2_exit>>

\* A daily bar of the reverse instrument: high_low_exit.handle_bar.
V2OnDailyReverse(bar) ==
    /\ v2_exit' = V2HLHandleBar(v2_exit, bar)
    /\ v2_fed' = [v2_fed EXCEPT !.exit = LastN(Append(@, bar), v2_exit.lookback)]
    /\ dec' = NoDecision
    /\ UNCHANGED <<strategy, bs_cfg, bs_daily_highs, bs_daily_lows, bs_daily_closes,
                   bs_signals, bs_position, v2_cfg, v2_enter>>

V2DailyMainBar ==
    /\ DecReady("BreakoutV2")
    /\ \E bar \in V2DailyBars : V2OnDailyMain(bar)

V2DailyReverseBar ==
    /\ DecReady("BreakoutV2")
    /\ \E bar \in V2DailyBars : V2OnDailyReverse(bar)

V2HourBar ==
    /\ DecReady("BreakoutV2")
    /\ \E bar \in DecBars, ema_initialized \in BOOLEAN, ema_value \in DecEmaValues,
          main_pos \in DecPositions, reverse_pos \in DecPositions,
          px \in DecLastPx, balance \in DecBalances :
           V2OnHourBar(bar, ema_initialized, ema_value, main_pos, reverse_pos,
                       px[1], px[2], balance)

\* high_low_enter.reset() between two handler calls.
V2ResetEnter ==
    /\ DecReady("BreakoutV2")
    /\ v2_enter' = V2HLReset(v2_enter)
    /\ v2_fed' = [v2_fed EXCEPT !.enter = <<>>]
    /\ UNCHANGED <<strategy, bs_cfg, bs_daily_highs, bs_daily_lows, bs_daily_closes,
                   bs_signals, bs_position, v2_cfg, v2_exit, dec>>

\* high_low_exit.reset() between two handler calls.
V2ResetExit ==
    /\ DecReady("BreakoutV2")
    /\ v2_exit' = V2HLReset(v2_exit)
    /\ v2_fed' = [v2_fed EXCEPT !.exit = <<>>]
    /\ UNCHANGED <<strategy, bs_cfg, bs_daily_highs, bs_daily_lows, bs_daily_closes,
                   bs_signals, bs_position, v2_cfg, v2_enter, dec>>

\* The handler call of the last bar has returned.
DecReturn ==
    /\ dec # NoDecision
    /\ dec' = NoDecision
    /\ UNCHANGED <<strategy, bs_cfg, bs_daily_highs, bs_daily_lows, bs_daily_closes,
                   bs_signals, bs_position, v2_cfg, v2_enter, v2_exit, v2_fed>>

----------------------------------------------------------------------------
(* The decision routines against the venue's portfolio,                     *)
(* src/breakout.py and src/breakoutv2.py                                    *)
(* submit_order hands a market order to the venue and returns; the net      *)
(* positions the routines read change only when the venue fills an order.   *)
(* The venue nets the fills of an instrument and fills the orders in the    *)
(* order of their submission, between two handler calls.                    *)

\* Orders that may wait for their fill at the same time.
PFMaxPending == 2

\* No position, no order waiting; delayed tells whether the venue may leave an
\* order unfilled while further bars are delivered.
PFFlat == [main |-> 0, hedge |-> 0, pending |-> <<>>, delayed |-> FALSE]

\* on_hour_bar reads only the close of the hour bar: one bar for each close.
PFHourBars == {b \in DecBars : b.high = b.close /\ b.low = b.close}

\* The lookbacks do not enter the bookkeeping of the positions: one
\* configuration of each strategy.
PFBSConfigs == {BSConfig(1, 1, 1, 1)}

PFV2Configs == {V2Config(1, 1, 1, 1)}

\* The net positions after the fill of order o.
PFApply(p, o) ==
    LET signed == IF o.side = "BUY" THEN o.qty ELSE -o.qty
    IN  IF o.instrument = "main" THEN [p EXCEPT !.main = @ + signed]
        ELSE [p EXCEPT !.hedge = @ + signed]

\* The venue fills the order that has waited longest.
PFFill ==
    /\ dec = NoDecision
    /\ Len(pf.pending) > 0
    /\ pf' = [PFApply(pf, Head(pf.pending)) EXCEPT !.pending = Tail(pf.pending)]
    /\ UNCHANGED rk_open
    /\ UNCHANGED decVars

\* A decision bar is delivered to strategy s: when the venue does not delay,
\* only after every submitted order has been filled.
PFReady(s) == DecReady(s) /\ (pf.delayed \/ pf.pending = <<>>)

\* A minute bar of the primary instrument: _check_minute_breakouts reads the
\* positions of the cache, the orders it submits wait at the venue.
PFMinuteBar ==
    /\ PFReady("BreakoutStrategy")
    /\ \E bar \in BSMinuteBars, balance \in DecBalances :
           BSCheckMinuteBreakouts(bar, pf.main, pf.hedge, balance)
    /\ pf' = [pf EXCEPT !.pending = @ \o dec'.orders]
    /\ Len(pf'.pending) <= PFMaxPending
    /\ UNCHANGED rk_open

\* An hour bar of the main instrument: on_hour_bar reads portfolio.net_position,
\* the orders it submits wait at the venue.
PFHourBar ==
    /\ PFReady("BreakoutV2")
    /\ \E bar \in PFHourBars, ema_initialized \in BOOLEAN, ema_value \in DecEmaValues,
          px \in DecLastPx, balance \in DecBalances :
           V2OnHourBar(bar, ema_initialized, ema_value, pf.main, pf.hedge,
                       px[1], px[2], balance)
    /\ pf' = [pf EXCEPT !.pending = @ \o dec'.orders]
    /\ Len(pf'.pending) <= PFMaxPending
    /\ UNCHANGED rk_open

----------------------------------------------------------------------------
(* MomentumMeanReversionNautilusIndicator,                                  *)
(* src/indicators/momentum_mean_reversion_nautilus.py                       *)
(* Closes and volumes are integers; every float the indicator derives from  *)
(* them is an exact fraction.                                               *)

\* handle_bar calls a run may make.
MMRMaxBars == 21

\* The last MMRVaryingBars bars of a run are arbitrary; the bars before them
\* repeat the first bar (a flat market).
MMRVaryingBars == 3

\* Closes: two positive levels and 0, the close that makes a mean or a VWAP zero.
MMRPrices == {0, 2, 3}

MMRVolumes == {0, 2}

MMRBars == [close : MMRPrices, volume : MMRVolumes]

\* Constructor arguments: reversion_window >= 2 (anything else raises);
\* overbought_threshold 2.5 bps (the default) or 5000 bps; exit_amplifier 1.5
\* (the default), 0 or -1, none of which __init__ rejects; and one
\* configuration whose reversion_window of 21 exceeds the 20 bars the other
\* computations need.
MMRConfigs ==
    [reversion_window : {2, 3},
     momentum_peak_threshold : {<<1, 1>>},
     overbought_threshold : {<<5, 2>>, <<5000, 1>>},
     entry_amplifier : {<<2, 1>>},
     exit_amplifier : {<<3, 2>>, <<0, 1>>, <<-1, 1>>}]
    \cup {[reversion_window |-> 21, momentum_peak_threshold |-> <<1, 1>>,
            overbought_threshold |-> <<5, 2>>, entry_amplifier |-> <<2, 1>>,
            exit_amplifier |-> <<3, 2>>]}

\* self._max_len = max(20, self.reversion_window)
MMRMaxLen(c) == Max2(20, c.reversion_window)

\* Mutant of MMRRequired: one more observation is required.
MMRRequired_Mut(c) == Max2(Max2(20, 10), c.reversion_window) + 1

\* required = max(20, 10, self.reversion_window)
MMRRequired(c) == Max2(Max2(20, 10), c.reversion_window)

\* __init__
MMRConstruct ==
    /\ mmr_cfg \in MMRConfigs
    /\ mmr_prices = <<>>
    /\ mmr_volumes = <<>>
    /\ mmr_initialized = FALSE
    /\ mmr_value = None
    /\ mmr_count = 0
    /\ mmr_fed = <<>>

\* Mutant of _append: on overflow the oldest entry is kept and the second
\* oldest is dropped.
MMRAppend_Mut(c, xs, x) ==
    LET ys == Append(xs, x)
    IN  IF Len(ys) > MMRMaxLen(c) THEN <<ys[1]>> \o SubSeq(ys, 3, Len(ys)) ELSE ys

\* _append: the list after the append and the pop(0) on overflow.
MMRAppend(c, xs, x) ==
    LET ys == Append(xs, x)
    IN  IF Len(ys) > MMRMaxLen(c) THEN Tail(ys) ELSE ys

\* The deviation of the latest close from the mean of the other closes of the
\* window: (current - mean_price) / mean_price with mean_price = s / (n - 1).
MMRDeviation(c, prices) ==
    LET n == c.reversion_window
        window == LastN(prices, n)
        s == SeqSum(SubSeq(window, 1, Len(window) - 1))
        m == Max2(Len(window) - 1, 1)
    IN  Frac(window[Len(window)] * m - s, s)

\* Mutant of MMRThreshold: the basis points are divided by 1000.
MMRThreshold_Mut(c) == Frac(c.overbought_threshold[1], c.overbought_threshold[2] * 1000)

\* threshold = self.overbought_threshold / 10000.0
MMRThreshold(c) == Frac(c.overbought_threshold[1], c.overbought_threshold[2] * 10000)

\* Mutant of MMRCalcMeanReversion: a zero mean of the window is taken for an
\* oversold market.
MMRCalcMeanReversion_Mut(c, prices) ==
    LET n == c.reversion_window
        window == LastN(prices, n)
        s == SeqSum(SubSeq(window, 1, Len(window) - 1))
        deviation == MMRDeviation(c, prices)
        threshold == MMRThreshold(c)
    IN  IF Len(prices) < n THEN <<0, 1>>
        ELSE IF s = 0 THEN <<2, 1>>
        ELSE IF FracLess(threshold, deviation) THEN <<-2, 1>>
        ELSE IF FracLess(deviation, <<-threshold[1], threshold[2]>>) THEN <<2, 1>>
        ELSE IF FracLess(<<1, 1000>>, <<Abs(deviation[1]), deviation[2]>>)
             THEN Frac(-deviation[1] * 10, deviation[2])
        ELSE <<0, 1>>

\* _calc_mean_reversion
MMRCalcMeanReversion(c, prices) ==
    LET n == c.reversion_window
        window == LastN(prices, n)
        s == SeqSum(SubSeq(window, 1, Len(window) - 1))
        deviation == MMRDeviation(c, prices)
        threshold == MMRThreshold(c)
    IN  IF Len(prices) < n THEN <<0, 1>>
        ELSE IF s = 0 THEN <<0, 1>>
        ELSE IF FracLess(threshold, deviation) THEN <<-2, 1>>
        ELSE IF FracLess(deviation, <<-threshold[1], threshold[2]>>) THEN <<2, 1>>
        ELSE IF FracLess(<<1, 1000>>, <<Abs(deviation[1]), deviation[2]>>)
             THEN Frac(-deviation[1] * 10, deviation[2])
        ELSE <<0, 1>>

\* vwap of one five-bar window of _calc_momentum
MMRVwap(ps, vs) ==
    IF SeqSum(vs) > 0 THEN Frac(SeqDot(ps, vs), SeqSum(vs)) ELSE Frac(SeqSum(ps), 5)

\* vol_factor of _calc_momentum, capped: min(vol_factor, 5.0)
MMRVolFactor(volumes) ==
    LET tail == LastN(volumes, 20)
        base == IF Len(tail) > 0 THEN Frac(SeqSum(tail), Len(tail)) ELSE <<1, 1>>
        recent3 == LastN(volumes, 3)
        avg3 == Frac(SeqSum(recent3), Max2(Len(recent3), 1))
        floor1 == IF FracLess(base, <<1, 1>>) THEN <<1, 1>> ELSE base
        vol_factor == Frac(avg3[1] * floor1[2], avg3[2] * floor1[1])
    IN  IF FracLess(<<5, 1>>, vol_factor) THEN <<5, 1>> ELSE vol_factor

\* _calc_momentum
MMRCalcMomentum(prices, volumes) ==
    LET len == Len(prices)
        vwap_recent == MMRVwap(LastN(prices, 5), LastN(volumes, 5))
        vwap_older == MMRVwap(SubSeq(prices, len - 9, len - 5),
                              SubSeq(volumes, len - 9, len - 5))
        momentum == Frac(vwap_recent[1] * vwap_older[2] - vwap_older[1] * vwap_recent[2],
                         vwap_older[1] * vwap_recent[2])
    IN  IF len < 10 THEN <<0, 1>>
        ELSE IF vwap_older[1] = 0 THEN <<0, 1>>
        ELSE FracMul(FracMul(momentum, <<1500, 1>>), MMRVolFactor(volumes))

\* The denominators of the divisions _calc_mean_reversion executes, as
\* fractions: max(len(window) - 1, 1), then mean_price unless the function
\* has returned on mean_price == 0.0, then 10000.0.
MMRReversionDenominators(c, prices) ==
    LET n == c.reversion_window
        window == LastN(prices, n)
        s == SeqSum(SubSeq(window, 1, Len(window) - 1))
        m == Max2(Len(window) - 1, 1)
    IN  IF Len(prices) < n THEN {}
        ELSE IF s = 0 THEN {<<m, 1>>}
        ELSE {<<m, 1>>, Frac(s, m), <<10000, 1>>}

\* The denominators of the divisions _calc_momentum executes: the volume sum
\* of each five-bar window when it is > 0.0 and 5.0 otherwise, then
\* vwap_older unless the function has returned on vwap_older == 0.0, then
\* len(tail), max(len(recent3), 1) and max(base, 1.0).
MMRMomentumDenominators(prices, volumes) ==
    LET len == Len(prices)
        recent_volumes == LastN(volumes, 5)
        older_volumes == SubSeq(volumes, len - 9, len - 5)
        vwap_older == MMRVwap(SubSeq(prices, len - 9, len - 5), older_volumes)
        tail == LastN(volumes, 20)
        base == IF Len(tail) > 0 THEN Frac(SeqSum(tail), Len(tail)) ELSE <<1, 1>>
        sums == {IF SeqSum(vs) > 0 THEN <<SeqSum(vs), 1>> ELSE <<5, 1>> :
                     vs \in {recent_volumes, older_volumes}}
    IN  IF len < 10 THEN {}
        ELSE IF vwap_older[1] = 0 THEN sums
        ELSE sums \cup {vwap_older, <<Max2(Len(LastN(volumes, 3)), 1), 1>>,
                        FracMax(base, <<1, 1>>)}
                  \cup (IF Len(tail) > 0 THEN {<<Len(tail), 1>>} ELSE {})

\* The denominators of one handle_bar call on an initialized indicator:
\* _calc_momentum runs only when the reversion signal is 0.0.
MMRDenominators(c, prices, volumes) ==
    MMRReversionDenominators(c, prices)
    \cup (IF MMRCalcMeanReversion(c, prices) # <<0, 1>> THEN {}
          ELSE MMRMomentumDenominators(prices, volumes))

\* Mutant of MMRSignal: the momentum signal is added to the reversion signal.
MMRSignal_MutSum(c, prices, volumes) ==
    FracAdd(FracMul(MMRCalcMeanReversion(c, prices), c.exit_amplifier),
            FracMul(MMRCalcMomentum(prices, volumes), c.entry_amplifier))

\* Mutant of MMRSignal: a non-zero momentum signal is emitted before the
\* reversion signal is looked at.
MMRSignal_Mut(c, prices, volumes) ==
    LET momentum_signal == MMRCalcMomentum(prices, volumes)
        reversion_signal == MMRCalcMeanReversion(c, prices)
    IN  IF momentum_signal # <<0, 1>> THEN FracMul(momentum_signal, c.entry_amplifier)
        ELSE FracMul(reversion_signal, c.exit_amplifier)

\* The value handle_bar assigns once initialized: the reversion signal when
\* it is not 0.0, else the momentum signal.
MMRSignal(c, prices, volumes) ==
    LET reversion_signal == MMRCalcMeanReversion(c, prices)
    IN  IF reversion_signal # <<0, 1>> THEN FracMul(reversion_signal, c.exit_amplifier)
        ELSE FracMul(MMRCalcMomentum(prices, volumes), c.entry_amplifier)

\* handle_bar: the fields after the call.
MMRAfterBar(bar) ==
    LET prices == MMRAppend(mmr_cfg, mmr_prices, bar.close)
        volumes == MMRAppend(mmr_cfg, mmr_volumes, bar.volume)
        initialized == mmr_initialized \/ Len(prices) >= MMRRequired(mmr_cfg)
    IN  [prices |-> prices, volumes |-> volumes, initialized |-> initialized,
         value |-> IF initialized THEN Some(MMRSignal(mmr_cfg, prices, volumes))
                   ELSE mmr_value]

\* handle_bar
MMRHandleBar(bar) ==
    \E after \in {MMRAfterBar(bar)} :
        /\ mmr_prices' = after.prices
        /\ mmr_volumes' = after.volumes
        /\ mmr_initialized' = after.initialized
        /\ mmr_value' = after.value
        /\ mmr_count' = mmr_count + 1
        /\ mmr_fed' = Append(mmr_fed, bar)
        /\ UNCHANGED mmr_cfg

\* reset
MMRReset ==
    /\ mmr_prices' = <<>>
    /\ mmr_volumes' = <<>>
    /\ mmr_value' = None
    /\ mmr_initialized' = FALSE
    /\ mmr_count' = 0
    /\ mmr_fed' = <<>>
    /\ UNCHANGED mmr_cfg

\* The bars the feed may deliver next.
MMRNextBars ==
    IF mmr_count >= 1 /\ mmr_count < MMRMaxBars - MMRVaryingBars
    THEN {[close |-> mmr_prices[Len(mmr_prices)],
           volume |-> mmr_volumes[Len(mmr_volumes)]]}
    ELSE MMRBars

MMRFeed ==
    /\ mmr_count < MMRMaxBars
    /\ \E bar \in MMRNextBars : MMRHandleBar(bar)

\* A third feed, on a fine price grid: 19 equal closes are in the buffers and
\* the 20th close, which initializes the indicator, lies within 6 price
\* steps of them, so that deviations around 10 basis points occur.
MMRFineBases == {1000, 2000}

MMRFineSteps == -6..6

\* overbought_threshold 0, 2.5 (the default), 10 and 25 basis points.
MMRFineConfigs ==
    [reversion_window : {2},
     momentum_peak_threshold : {<<1, 1>>},
     overbought_threshold : {<<0, 1>>, <<5, 2>>, <<10, 1>>, <<25, 1>>},
     entry_amplifier : {<<2, 1>>},
     exit_amplifier : {<<3, 2>>, <<-1, 1>>}]

\* The indicator after MMRRequired - 1 bars of close base and volume 2.
MMRFineStart(c, base) ==
    LET n == MMRRequired(c) - 1
    IN  /\ mmr_cfg = c
        /\ mmr_prices = [i \in 1..n |-> base]
        /\ mmr_volumes = [i \in 1..n |-> 2]
        /\ mmr_value = None
        /\ mmr_initialized = FALSE
        /\ mmr_count = n
        /\ mmr_fed = [i \in 1..n |-> [close |-> base, volume |-> 2]]

MMRFineFeed ==
    /\ Len(mmr_prices) < MMRRequired(mmr_cfg)
    /\ \E k \in MMRFineSteps :
           MMRHandleBar([close |-> mmr_prices[Len(mmr_prices)] + k, volume |-> 2])

\* A second feed: the first MMREarlyBars bars of a run are arbitrary and the
\* bars after them repeat the last of these, so that the bars the buffer
\* evicts differ from the ones it keeps.
MMREarlyBars == 2

MMREarlyNextBars ==
    IF mmr_count < MMREarlyBars THEN MMRBars
    ELSE {[close |-> mmr_prices[Len(mmr_prices)],
           volume |-> mmr_volumes[Len(mmr_volumes)]]}

MMREarlyFeed ==
    /\ mmr_count < MMRMaxBars
    /\ \E bar \in MMREarlyNextBars : MMRHandleBar(bar)

----------------------------------------------------------------------------
(* RenkoTrendNautilusIndicator, src/indicators/renko_trend_nautilus.py      *)
(* Bar prices are integers; the ATR, the box and the brick prices are exact *)
(* fractions.                                                               *)

\* handle_bar calls a run may make.
RKMaxBars == 5

RKPrices == {1, 2, 3}

\* Bars with low <= open, close <= high and a positive range: the true range
\* of every bar, hence the ATR, is positive.
RKBars ==
    {b \in [open : RKPrices, high : RKPrices, low : RKPrices, close : RKPrices] :
        /\ b.low < b.high
        /\ b.low <= b.open /\ b.open <= b.high
        /\ b.low <= b.close /\ b.close <= b.high}

\* Constructor arguments __init__ accepts: fixed bricks of 0.5 or 1 without a
\* tick size, a fixed brick of 0.5 below a tick size of 1, and ATR bricks
\* (period 2) with and without a tick size of 1, and one ATR configuration of
\* period 3.
RKConfigs ==
    [method : {"Traditional"}, atr_period : {1}, brick_size : {<<1, 2>>, <<1, 1>>},
     source : {"close", "hl"}, reversal : {1, 2}, tick_size : {None}]
    \cup
    {[method |-> "Traditional", atr_period |-> 1, brick_size |-> <<1, 2>>,
      source |-> "close", reversal |-> 1, tick_size |-> Some(<<1, 1>>)]}
    \cup
    [method : {"ATR"}, atr_period : {2}, brick_size : {<<10, 1>>},
     source : {"close", "hl"}, reversal : {1, 2}, tick_size : {None, Some(<<1, 1>>)}]
    \cup
    {[method |-> "ATR", atr_period |-> 3, brick_size |-> <<10, 1>>,
      source |-> "close", reversal |-> 1, tick_size |-> None]}

RKNoBar ==
    [high |-> 0, low |-> 0, close |-> 0, box |-> None, begin_price |-> None,
     trend |-> 0]

\* __init__
RKConstruct ==
    /\ rk_cfg \in RKConfigs
    /\ rk_prev_close = None
    /\ rk_tr_window = <<>>
    /\ rk_atr = None
    /\ rk_box = None
    /\ rk_begin_price = None
    /\ rk_trend = 0
    /\ rk_iopen = None
    /\ rk_iclose = None
    /\ rk_initialized = FALSE
    /\ rk_value = None
    /\ rk_count = 0
    /\ rk_last = RKNoBar

\* _min_tick
RKMinTick(c) == IF IsNone(c.tick_size) THEN <<0, 1>> ELSE Get(c.tick_size)

\* round(n / d) for n >= 0, d > 0: Python rounds a tie to the even integer.
RKRound(n, d) ==
    LET q == n \div d
        r == n % d
    IN  IF 2 * r < d THEN q
        ELSE IF 2 * r > d THEN q + 1
        ELSE IF q % 2 = 0 THEN q ELSE q + 1

\* _quantize(value).  Without a tick size the result is max(value, 1e-12),
\* which is value: the ATR of bars of RKBars is at least 1.
RKQuantize(c, value) ==
    LET ts == RKMinTick(c)
        steps == RKRound(value[1] * ts[2], value[2] * ts[1])
    IN  IF ts[1] > 0 THEN FracMax(FracScale(steps, ts), ts) ELSE value

\* The true range of _update_atr
RKTrueRange(prev_close, high, low) ==
    IF IsNone(prev_close) THEN Abs(high - low)
    ELSE Max2(high - low, Max2(Abs(high - Get(prev_close)), Abs(low - Get(prev_close))))

\* _update_atr: the ATR fields after the call.
RKUpdateAtr(c, prev_close, tr_window, atr, high, low, close) ==
    LET tr == RKTrueRange(prev_close, high, low)
        appended == Append(tr_window, tr)
        window == IF Len(appended) > c.atr_period THEN Tail(appended) ELSE appended
    IN  IF IsNone(atr)
        THEN [prev_close |-> Some(close), tr_window |-> window,
              atr |-> IF Len(window) = c.atr_period
                      THEN Some(Frac(SeqSum(window), c.atr_period)) ELSE None]
        ELSE [prev_close |-> Some(close), tr_window |-> tr_window,
              atr |-> Some(Frac(Get(atr)[1] * (c.atr_period - 1) + tr * Get(atr)[2],
                                Get(atr)[2] * c.atr_period))]

\* Mutant of RKEnsureBox: before the ATR is seeded the box falls back to
\* brick_size.
RKEnsureBox_MutSeed(c, box, atr) ==
    IF ~IsNone(box) THEN box
    ELSE IF c.method = "ATR"
         THEN (IF IsNone(atr) THEN Some(c.brick_size) ELSE Some(RKQuantize(c, Get(atr))))
         ELSE Some(FracMax(c.brick_size, RKMinTick(c)))

\* Mutant of RKEnsureBox: the fixed box is brick_size, whatever the tick size.
RKEnsureBox_Mut(c, box, atr) ==
    IF ~IsNone(box) THEN box
    ELSE IF c.method = "ATR"
         THEN (IF IsNone(atr) THEN None ELSE Some(RKQuantize(c, Get(atr))))
         ELSE Some(c.brick_size)

\* "Ensure box size": self._box after that block of handle_bar.
RKEnsureBox(c, box, atr) ==
    IF ~IsNone(box) THEN box
    ELSE IF c.method = "ATR"
         THEN (IF IsNone(atr) THEN None ELSE Some(RKQuantize(c, Get(atr))))
         ELSE Some(FracMax(c.brick_size, RKMinTick(c)))

\* begin - num * box (dir = -1) or begin + num * box (dir = 1) with
\* num = int(abs(begin - price) // box)
RKBrickClose(begin, box, price, dir) ==
    LET num == FracFloorDiv(FracAbs(FracSub(begin, <<price, 1>>)), box)
    IN  FracAdd(begin, FracScale(dir * num, box))

\* box * k <= abs(begin - price)
RKMoved(begin, box, k, price) ==
    FracLeq(FracScale(k, box), FracAbs(FracSub(begin, <<price, 1>>)))

\* "Establish initial trend if unknown"
RKEstablish(c, trend, begin, box, current_price, iopen, iclose) ==
    IF trend = 0 /\ RKMoved(begin, box, c.reversal, current_price)
    THEN IF FracLess(<<current_price, 1>>, begin)
         THEN [trend |-> -1, iopen |-> Some(begin),
               iclose |-> Some(RKBrickClose(begin, box, current_price, -1))]
         ELSE IF FracLess(begin, <<current_price, 1>>)
         THEN [trend |-> 1, iopen |-> Some(begin),
               iclose |-> Some(RKBrickClose(begin, box, current_price, 1))]
         ELSE [trend |-> trend, iopen |-> iopen, iclose |-> iclose]
    ELSE [trend |-> trend, iopen |-> iopen, iclose |-> iclose]

\* The continuation test of a trend: the reference price is beyond begin in
\* the direction of the trend by at least one box.
RKContinues(trend, begin, box, current_price) ==
    /\ IF trend = -1 THEN FracLess(<<current_price, 1>>, begin)
       ELSE FracLess(begin, <<current_price, 1>>)
    /\ RKMoved(begin, box, 1, current_price)

\* The reversal test of a trend on temp_price.
RKReverses(c, trend, begin, box, temp_price) ==
    /\ IF trend = -1 THEN FracLess(begin, <<temp_price, 1>>)
       ELSE FracLess(<<temp_price, 1>>, begin)
    /\ RKMoved(begin, box, c.reversal, temp_price)

\* temp_price of a trend
RKTempPrice(c, trend, bar) ==
    IF c.source = "close" THEN bar.close
    ELSE IF trend = -1 THEN bar.high ELSE bar.low

\* Mutant of RKContinueOrReverse: the reversal is tried first, the
\* continuation only when the trend did not reverse.
RKContinueOrReverse_Mut(c, trend, begin, box, current_price, bar, iopen, iclose) ==
    LET temp_price == RKTempPrice(c, trend, bar)
        same == [trend |-> trend, iopen |-> iopen, iclose |-> iclose,
                 begin_price |-> Some(begin)]
    IN  IF trend = 0 THEN same
        ELSE IF RKReverses(c, trend, begin, box, temp_price)
        THEN LET close_px == RKBrickClose(begin, box, temp_price, -trend)
             IN  [trend |-> -trend,
                  iopen |-> Some(FracAdd(begin, FracScale(-trend, box))),
                  iclose |-> Some(close_px), begin_price |-> Some(close_px)]
        ELSE IF RKContinues(trend, begin, box, current_price)
        THEN LET close_px == RKBrickClose(begin, box, current_price, trend)
             IN  [trend |-> trend, iopen |-> iopen, iclose |-> Some(close_px),
                  begin_price |-> Some(close_px)]
        ELSE same

\* Mutant of RKContinueOrReverse: one box against the trend is enough to
\* reverse, whatever `reversal` is.
RKContinueOrReverse_MutRev(c, trend, begin, box, current_price, bar, iopen, iclose) ==
    LET temp_price == RKTempPrice(c, trend, bar)
        same == [trend |-> trend, iopen |-> iopen, iclose |-> iclose,
                 begin_price |-> Some(begin)]
    IN  IF trend = 0 THEN same
        ELSE IF RKContinues(trend, begin, box, current_price)
        THEN LET close_px == RKBrickClose(begin, box, current_price, trend)
             IN  [trend |-> trend, iopen |-> iopen, iclose |-> Some(close_px),
                  begin_price |-> Some(close_px)]
        ELSE IF RKContinues(-trend, begin, box, temp_price)
        THEN LET close_px == RKBrickClose(begin, box, temp_price, -trend)
             IN  [trend |-> -trend,
                  iopen |-> Some(FracAdd(begin, FracScale(-trend, box))),
                  iclose |-> Some(close_px), begin_price |-> Some(close_px)]
        ELSE same

\* Mutant of RKContinueOrReverse: a bar that neither continues nor reverses
\* the trend puts it back to unknown.
RKContinueOrReverse_MutUnset(c, trend, begin, box, current_price, bar, iopen, iclose) ==
    LET temp_price == RKTempPrice(c, trend, bar)
        same == [trend |-> 0, iopen |-> iopen, iclose |-> iclose,
                 begin_price |-> Some(begin)]
    IN  IF trend = 0 THEN same
        ELSE IF RKContinues(trend, begin, box, current_price)
        THEN LET close_px == RKBrickClose(begin, box, current_price, trend)
             IN  [trend |-> trend, iopen |-> iopen, iclose |-> Some(close_px),
                  begin_price |-> Some(close_px)]
        ELSE IF RKReverses(c, trend, begin, box, temp_price)
        THEN LET close_px == RKBrickClose(begin, box, temp_price, -trend)
             IN  [trend |-> -trend,
                  iopen |-> Some(FracAdd(begin, FracScale(-trend, box))),
                  iclose |-> Some(close_px), begin_price |-> Some(close_px)]
        ELSE same

\* Mutant of RKContinueOrReverse: a continuation moves the brick close and
\* leaves begin_price where it was.
RKContinueOrReverse_MutStale(c, trend, begin, box, current_price, bar, iopen, iclose) ==
    LET temp_price == RKTempPrice(c, trend, bar)
        same == [trend |-> trend, iopen |-> iopen, iclose |-> iclose,
                 begin_price |-> Some(begin)]
    IN  IF trend = 0 THEN same
        ELSE IF RKContinues(trend, begin, box, current_price)
        THEN LET close_px == RKBrickClose(begin, box, current_price, trend)
             IN  [trend |-> trend, iopen |-> iopen, iclose |-> Some(close_px),
                  begin_price |-> Some(begin)]
        ELSE IF RKReverses(c, trend, begin, box, temp_price)
        THEN LET close_px == RKBrickClose(begin, box, temp_price, -trend)
             IN  [trend |-> -trend,
                  iopen |-> Some(FracAdd(begin, FracScale(-trend, box))),
                  iclose |-> Some(close_px), begin_price |-> Some(close_px)]
        ELSE same

\* "Continue or reverse trend": continuation first (it clears nok), the
\* reversal only while nok is still set.
RKContinueOrReverse(c, trend, begin, box, current_price, bar, iopen, iclose) ==
    LET temp_price == RKTempPrice(c, trend, bar)
        same == [trend |-> trend, iopen |-> iopen, iclose |-> iclose,
                 begin_price |-> Some(begin)]
    IN  IF trend = 0 THEN same
        ELSE IF RKContinues(trend, begin, box, current_price)
        THEN LET close_px == RKBrickClose(begin, box, current_price, trend)
             IN  [trend |-> trend, iopen |-> iopen, iclose |-> Some(close_px),
                  begin_price |-> Some(close_px)]
        ELSE IF RKReverses(c, trend, begin, box, temp_price)
        THEN LET close_px == RKBrickClose(begin, box, temp_price, -trend)
             IN  [trend |-> -trend,
                  iopen |-> Some(FracAdd(begin, FracScale(-trend, box))),
                  iclose |-> Some(close_px), begin_price |-> Some(close_px)]
        ELSE same

\* Mutant of RKCurrentPrice: while the trend is unknown 'hl' reads the high.
RKCurrentPrice_Mut(c, trend, bar) ==
    IF c.source = "close" THEN bar.close
    ELSE IF trend = -1 THEN bar.low ELSE bar.high

\* current_price: close, or high / low chosen by the trend at the start of
\* the bar.
RKCurrentPrice(c, trend, bar) ==
    IF c.source = "close" THEN bar.close
    ELSE IF trend = 1 THEN bar.high ELSE bar.low

\* Mutant of RKAfterBar: the box is recomputed on every bar that changes the
\* brick close, the first brick close included.
RKAfterBar_Mut(bar) ==
    LET a == RKUpdateAtr(rk_cfg, rk_prev_close, rk_tr_window, rk_atr,
                         bar.high, bar.low, bar.close)
        box_now == RKEnsureBox(rk_cfg, rk_box, a.atr)
        box == Get(box_now)
        begin == IF IsNone(rk_begin_price)
                 THEN FracScale(FracFloorDiv(<<bar.open, 1>>, box), box)
                 ELSE Get(rk_begin_price)
        current_price == IF rk_cfg.source = "close" THEN bar.close
                         ELSE IF rk_trend = 1 THEN bar.high ELSE bar.low
        est == RKEstablish(rk_cfg, rk_trend, begin, box, current_price,
                           rk_iopen, rk_iclose)
        step == RKContinueOrReverse(rk_cfg, est.trend, begin, box, current_price,
                                    bar, est.iopen, est.iclose)
        requantize == /\ rk_cfg.method = "ATR"
                      /\ ~IsNone(step.iclose)
                      /\ step.iclose # rk_iclose
                      /\ ~IsNone(a.atr)
        unchanged == [box |-> rk_box, begin_price |-> rk_begin_price,
                      trend |-> rk_trend, iopen |-> rk_iopen, iclose |-> rk_iclose,
                      initialized |-> rk_initialized, value |-> rk_value,
                      prev_close |-> a.prev_close, tr_window |-> a.tr_window,
                      atr |-> a.atr]
    IN  IF IsNone(box_now) THEN unchanged
        ELSE IF FracLeq(box, <<0, 1>>) THEN [unchanged EXCEPT !.box = box_now]
        ELSE [box |-> IF requantize THEN Some(RKQuantize(rk_cfg, Get(a.atr)))
                      ELSE box_now,
              begin_price |-> step.begin_price,
              trend |-> step.trend,
              iopen |-> step.iopen,
              iclose |-> step.iclose,
              value |-> IF step.trend \in {-1, 1} THEN Some(step.trend) ELSE rk_value,
              initialized |-> (rk_initialized \/ step.trend \in {-1, 1}),
              prev_close |-> a.prev_close, tr_window |-> a.tr_window, atr |-> a.atr]

\* handle_bar: the fields after the call.
RKAfterBar(bar) ==
    LET a == RKUpdateAtr(rk_cfg, rk_prev_close, rk_tr_window, rk_atr,
                         bar.high, bar.low, bar.close)
        box_now == RKEnsureBox(rk_cfg, rk_box, a.atr)
        box == Get(box_now)
        begin == IF IsNone(rk_begin_price)
                 THEN FracScale(FracFloorDiv(<<bar.open, 1>>, box), box)
                 ELSE Get(rk_begin_price)
        current_price == RKCurrentPrice(rk_cfg, rk_trend, bar)
        est == RKEstablish(rk_cfg, rk_trend, begin, box, current_price,
                           rk_iopen, rk_iclose)
        step == RKContinueOrReverse(rk_cfg, est.trend, begin, box, current_price,
                                    bar, est.iopen, est.iclose)
        requantize == /\ rk_cfg.method = "ATR"
                      /\ ~IsNone(step.iclose) /\ ~IsNone(rk_iclose)
                      /\ step.iclose # rk_iclose
                      /\ ~IsNone(a.atr)
        unchanged == [box |-> rk_box, begin_price |-> rk_begin_price,
                      trend |-> rk_trend, iopen |-> rk_iopen, iclose |-> rk_iclose,
                      initialized |-> rk_initialized, value |-> rk_value,
                      prev_close |-> a.prev_close, tr_window |-> a.tr_window,
                      atr |-> a.atr]
    IN  IF IsNone(box_now) THEN unchanged
        ELSE IF FracLeq(box, <<0, 1>>) THEN [unchanged EXCEPT !.box = box_now]
        ELSE [box |-> IF requantize THEN Some(RKQuantize(rk_cfg, Get(a.atr)))
                      ELSE box_now,
              begin_price |-> step.begin_price,
              trend |-> step.trend,
              iopen |-> step.iopen,
              iclose |-> step.iclose,
              value |-> IF step.trend \in {-1, 1} THEN Some(step.trend) ELSE rk_value,
              initialized |-> (rk_initialized \/ step.trend \in {-1, 1}),
              prev_close |-> a.prev_close, tr_window |-> a.tr_window, atr |-> a.atr]

\* handle_bar
RKHandleBar(bar) ==
    \E after \in {RKAfterBar(bar)} :
        /\ rk_prev_close' = after.prev_close
        /\ rk_tr_window' = after.tr_window
        /\ rk_atr' = after.atr
        /\ rk_box' = after.box
        /\ rk_begin_price' = after.begin_price
        /\ rk_trend' = after.trend
        /\ rk_iopen' = after.iopen
        /\ rk_iclose' = after.iclose
        /\ rk_value' = after.value
        /\ rk_initialized' = after.initialized
        /\ rk_count' = rk_count + 1
        /\ rk_last' = [high |-> bar.high, low |-> bar.low, close |-> bar.close,
                       box |-> rk_box, begin_price |-> rk_begin_price,
                       trend |-> rk_trend]
        /\ UNCHANGED rk_cfg

\* Mutant of RKReset: the ATR state survives the reset.
RKReset_Mut ==
    /\ rk_box' = None
    /\ rk_begin_price' = None
    /\ rk_trend' = 0
    /\ rk_iopen' = None
    /\ rk_iclose' = None
    /\ rk_value' = None
    /\ rk_initialized' = FALSE
    /\ rk_count' = 0
    /\ rk_last' = RKNoBar
    /\ UNCHANGED <<rk_cfg, rk_prev_close, rk_tr_window, rk_atr>>

\* reset
RKReset ==
    /\ rk_prev_close' = None
    /\ rk_tr_window' = <<>>
    /\ rk_atr' = None
    /\ rk_box' = None
    /\ rk_begin_price' = None
    /\ rk_trend' = 0
    /\ rk_iopen' = None
    /\ rk_iclose' = None
    /\ rk_value' = None
    /\ rk_initialized' = FALSE
    /\ rk_count' = 0
    /\ rk_last' = RKNoBar
    /\ UNCHANGED rk_cfg

RKFeed ==
    /\ rk_count < RKMaxBars
    /\ \E bar \in RKBars : RKHandleBar(bar)

\* The feed and the reset of a run whose bar opens are observed.
RKSeenFeed ==
    /\ rk_count < RKMaxBars
    /\ \E bar \in RKBars : RKHandleBar(bar) /\ rk_open' = Some(bar.open) /\ UNCHANGED pf

RKSeenReset == RKReset /\ rk_open' = None /\ UNCHANGED pf

----------------------------------------------------------------------------
(* EMASignalIndicator, src/indicators/ema_indicator_nautilus.py             *)
(* self._ema is nautilus_trader's ExponentialMovingAverage: alpha is        *)
(* 2 / (period + 1), the first input seeds the value, every input is        *)
(* smoothed in, and it is initialized once `period` inputs were handled.    *)

\* handle_bar calls a run may make.
EMAMaxBars == 5

EMAPrices == {1, 2, 3}

\* period >= 2 (anything else raises)
EMAPeriods == {2, 3}

\* ExponentialMovingAverage(period) as built, and after its reset()
EMAInnerNew == [count |-> 0, value |-> <<0, 1>>, initialized |-> FALSE]

\* __init__
EMAConstruct ==
    /\ emas_period \in EMAPeriods
    /\ emas_inner = EMAInnerNew
    /\ emas_initialized = FALSE
    /\ emas_value = None
    /\ emas_before_reset = 0

\* Mutant of EMAInnerHandleBar: initialized only while the count is `period`.
EMAInnerHandleBar_Mut(period, inner, close) ==
    LET prev == IF inner.count = 0 THEN <<close, 1>> ELSE inner.value
        alpha == Frac(2, period + 1)
        count == inner.count + 1
    IN  [count |-> count,
         value |-> FracAdd(FracMul(alpha, <<close, 1>>),
                           FracMul(FracSub(<<1, 1>>, alpha), prev)),
         initialized |-> (count = period)]

\* self._ema.handle_bar(bar): value = alpha * close + (1 - alpha) * value,
\* with value = close first when there were no inputs yet.
EMAInnerHandleBar(period, inner, close) ==
    LET prev == IF inner.count = 0 THEN <<close, 1>> ELSE inner.value
        alpha == Frac(2, period + 1)
        count == inner.count + 1
    IN  [count |-> count,
         value |-> FracAdd(FracMul(alpha, <<close, 1>>),
                           FracMul(FracSub(<<1, 1>>, alpha), prev)),
         initialized |-> (inner.initialized \/ count >= period)]

\* handle_bar: the fields after the call.
EMAAfterBar(close) ==
    LET inner == EMAInnerHandleBar(emas_period, emas_inner, close)
    IN  [inner |-> inner, initialized |-> inner.initialized,
         value |-> IF ~inner.initialized THEN emas_value
                   ELSE IF FracLess(inner.value, <<close, 1>>) THEN Some(1)
                   ELSE Some(-1)]

\* handle_bar
EMAHandleBar(close) ==
    \E after \in {EMAAfterBar(close)} :
        /\ emas_inner' = after.inner
        /\ emas_initialized' = after.initialized
        /\ emas_value' = after.value
        /\ UNCHANGED <<emas_period, emas_before_reset>>

\* reset
EMAReset ==
    /\ emas_inner' = EMAInnerNew
    /\ emas_value' = None
    /\ emas_initialized' = FALSE
    /\ emas_before_reset' = emas_inner.count
    /\ UNCHANGED emas_period

EMAFeed ==
    /\ emas_inner.count < EMAMaxBars
    /\ \E close \in EMAPrices : EMAHandleBar(close)

----------------------------------------------------------------------------
(* MomentumMeanReversionIndicator (TrendIndicator),                         *)
(* src/indicators/momentum_mean_reversion_indicator.py                      *)

\* Longest price / volume array calculate is called with.
MMIMaxLen == 11

MMIPrices == {1, 2, 3}

MMIVolumes == {0, 2}

\* The arrays of the first call are grown from an eight-bar history of equal
\* closes and equal volumes.
MMIBasePrices == [i \in 1..8 |-> 2]

MMIBaseVolumes == {[i \in 1..8 |-> v] : v \in MMIVolumes}

\* The constructor's config: two reversion windows around the default
\* overbought_threshold 2.5.
MMIConfigs ==
    [reversion_window : {2, 3}, momentum_peak_threshold : {<<1, 1>>},
     overbought_threshold : {<<5, 2>>}, entry_amplifier : {<<2, 1>>},
     exit_amplifier : {<<3, 2>>}]

MMIConstruct ==
    /\ mmi_cfg \in MMIConfigs
    /\ mmi_price_data = MMIBasePrices
    /\ mmi_volume_data \in MMIBaseVolumes
    /\ mmi_result = None

\* np.sum(ps * vs) / np.sum(vs) when the volumes are not all zero, else
\* np.mean(ps)
MMIVwap(ps, vs) ==
    IF SeqSum(vs) > 0 THEN Frac(SeqDot(ps, vs), SeqSum(vs))
    ELSE Frac(SeqSum(ps), Len(ps))

\* min(volume_factor, 5.0) with
\* volume_factor = np.mean(recent_volumes[-3:]) / max(np.mean(volume_data[-20:]), 1)
MMIVolumeFactor(volume_data) ==
    LET tail == LastN(volume_data, 20)
        recent3 == LastN(LastN(volume_data, 5), 3)
        avg3 == Frac(SeqSum(recent3), Len(recent3))
        base == FracMax(Frac(SeqSum(tail), Len(tail)), <<1, 1>>)
        volume_factor == Frac(avg3[1] * base[2], avg3[2] * base[1])
    IN  IF FracLess(<<5, 1>>, volume_factor) THEN <<5, 1>> ELSE volume_factor

\* calculate(price_data, volume_data)
MMICalculate(price_data, volume_data) ==
    IF Len(price_data) < 10 \/ Len(volume_data) < 10 THEN <<0, 1>>
    ELSE LET len == Len(price_data)
             vlen == Len(volume_data)
             vwap_recent == MMIVwap(LastN(price_data, 5), LastN(volume_data, 5))
             vwap_older == MMIVwap(SubSeq(price_data, len - 9, len - 5),
                                   SubSeq(volume_data, vlen - 9, vlen - 5))
         IN  IF vwap_older[1] = 0 THEN <<0, 1>>
             ELSE LET momentum == Frac(vwap_recent[1] * vwap_older[2]
                                         - vwap_older[1] * vwap_recent[2],
                                       vwap_older[1] * vwap_recent[2])
                  IN  FracMul(FracMul(momentum, <<1500, 1>>),
                              MMIVolumeFactor(volume_data))

\* _calculate_mean_reversion_signal(prices)
MMICalculateMeanReversionSignal(c, prices) ==
    IF Len(prices) < c.reversion_window THEN <<0, 1>>
    ELSE LET recent_prices == LastN(prices, c.reversion_window)
             others == SubSeq(recent_prices, 1, Len(recent_prices) - 1)
             mean_price == Frac(SeqSum(others), Len(others))
             current_price == prices[Len(prices)]
         IN  IF mean_price[1] = 0 THEN <<0, 1>>
             ELSE LET deviation == Frac((current_price * mean_price[2] - mean_price[1])
                                            * mean_price[2],
                                        mean_price[2] * mean_price[1])
                      threshold == Frac(c.overbought_threshold[1],
                                        c.overbought_threshold[2] * 10000)
                  IN  IF FracLess(threshold, deviation) THEN <<-2, 1>>
                      ELSE IF FracLess(deviation, <<-threshold[1], threshold[2]>>)
                      THEN <<2, 1>>
                      ELSE IF FracLess(<<1, 1000>>, FracAbs(deviation))
                      THEN Frac(-deviation[1] * 10, deviation[2])
                      ELSE <<0, 1>>

\* The caller appends one bar to its arrays and calls calculate on them.
MMICall(price, volume) ==
    \E after \in {[price_data |-> Append(mmi_price_data, price),
                   volume_data |-> Append(mmi_volume_data, volume)]} :
        /\ mmi_price_data' = after.price_data
        /\ mmi_volume_data' = after.volume_data
        /\ mmi_result' = Some(MMICalculate(after.price_data, after.volume_data))
        /\ UNCHANGED mmi_cfg

MMIFeed ==
    /\ Len(mmi_price_data) < MMIMaxLen
    /\ \E price \in MMIPrices, volume \in MMIVolumes : MMICall(price, volume)

----------------------------------------------------------------------------
(* EMAIndicator (TrendIndicator), src/indicators/ema_indicator.py           *)

\* Longest price array _calculate_ema is called with.
EMCMaxLen == 5

\* Prices: two positive levels and 0, the price that makes the EMA zero.
EMCPrices == {0, 1, 2}

\* ema_period
EMCPeriods == {1, 2}

EMCConstruct ==
    /\ emc_period \in EMCPeriods
    /\ emc_prices = <<>>
    /\ emc_ema = None
    /\ emc_signal = None

\* The loop of _calculate_ema: ema = prices[i] * multiplier + ema * (1 - multiplier)
\* for i = from .. len(prices) - 1 (0-based), multiplier = 2.0 / (ema_period + 1).
RECURSIVE EMCLoop(_, _, _, _)
EMCLoop(period, prices, from, ema) ==
    IF from >= Len(prices) THEN ema
    ELSE LET multiplier == Frac(2, period + 1)
         IN  EMCLoop(period, prices, from + 1,
                     FracAdd(FracScale(prices[from + 1], multiplier),
                             FracMul(ema, FracSub(<<1, 1>>, multiplier))))

\* Mutant of EMCCalculateEma: the average is always taken over the first
\* ema_period prices of the array.
EMCCalculateEma_Mut(period, prices) ==
    IF Len(prices) < period THEN <<0, 1>>
    ELSE EMCLoop(period, prices, period,
                 Frac(SeqSum(SubSeq(prices, 1, period)), period))

\* _calculate_ema(prices)
EMCCalculateEma(period, prices) ==
    IF Len(prices) < period THEN <<0, 1>>
    ELSE LET lookback == Min2(Len(prices), period * 2)
             start_idx == Len(prices) - lookback
             sma == Frac(SeqSum(SubSeq(prices, start_idx + 1, start_idx + period)),
                         period)
         IN  EMCLoop(period, prices, start_idx + period, sma)

\* self.signal_strength (the default)
EMCSignalStrength == 100

\* calculate(price_data, volume_data): volume_data is not read.
EMCCalculate(period, prices) ==
    IF Len(prices) < period THEN <<0, 1>>
    ELSE LET ema_value == EMCCalculateEma(period, prices)
         IN  IF ema_value[1] = 0 THEN <<0, 1>>
             ELSE LET deviation ==
                          FracMul(FracSub(<<prices[Len(prices)], 1>>, ema_value),
                                  <<ema_value[2], ema_value[1]>>)
                  IN  FracScale(-EMCSignalStrength, deviation)

\* The denominators of the divisions calculate executes: ema_period + 1 and
\* ema_period (the average) in _calculate_ema, then ema_value unless calculate
\* has returned on ema_value == 0.
EMCDenominators(period, prices) ==
    IF Len(prices) < period THEN {}
    ELSE LET ema_value == EMCCalculateEma(period, prices)
         IN  {<<period + 1, 1>>, <<period, 1>>}
             \cup (IF ema_value[1] = 0 THEN {} ELSE {ema_value})

\* The caller appends one price to its array and calls calculate (hence
\* _calculate_ema) on it.
EMCCall(price) ==
    \E prices \in {Append(emc_prices, price)} :
        /\ emc_prices' = prices
        /\ emc_ema' = Some(EMCCalculateEma(emc_period, prices))
        /\ emc_signal' = Some(EMCCalculate(emc_period, prices))
        /\ UNCHANGED emc_period

EMCFeed ==
    /\ Len(emc_prices) < EMCMaxLen
    /\ \E price \in EMCPrices : EMCCall(price)

----------------------------------------------------------------------------
(* handle_quote_tick / handle_trade_tick of the bar-only indicators         *)

TickHandlers == {"handle_quote_tick", "handle_trade_tick"}

\* `raise RuntimeError(...)`: the call ends with the error and has assigned
\* nothing.
TickRaise(indicator, handler) ==
    tick_raised' = Some([indicator |-> indicator, handler |-> handler,
                         error |-> "RuntimeError"])

\* Mutant of HLHandleTick: the tick is taken for a bar and moves the write
\* cursor before the error is raised.
HLHandleTick_Mut(handler) ==
    /\ TickRaise("HighLowDailyHistIndicator", handler)
    /\ hl_next_idx' = (hl_next_idx + 1) % HLMaxLookbackOf(hl_cfg)
    /\ UNCHANGED <<hl_cfg, hl_highs, hl_lows, hl_initialized, hl_value, hl_count,
                   hl_recent>>

\* HighLowDailyHistIndicator.handle_quote_tick / handle_trade_tick
HLHandleTick(handler) ==
    /\ TickRaise("HighLowDailyHistIndicator", handler)
    /\ UNCHANGED hlVars

\* MomentumMeanReversionNautilusIndicator.handle_quote_tick / handle_trade_tick
MMRHandleTick(handler) ==
    /\ TickRaise("MomentumMeanReversionNautilusIndicator", handler)
    /\ UNCHANGED mmrVars

\* RenkoTrendNautilusIndicator.handle_quote_tick / handle_trade_tick
RKHandleTick(handler) ==
    /\ TickRaise("RenkoTrendNautilusIndicator", handler)
    /\ UNCHANGED rkVars

\* EMASignalIndicator.handle_quote_tick / handle_trade_tick
EMAHandleTick(handler) ==
    /\ TickRaise("EMASignalIndicator", handler)
    /\ UNCHANGED emaVars

HLTick == \E handler \in TickHandlers : HLHandleTick(handler)

MMRTick == \E handler \in TickHandlers : MMRHandleTick(handler)

RKTick == \E handler \in TickHandlers : RKHandleTick(handler)

EMATick == \E handler \in TickHandlers : EMAHandleTick(handler)

----------------------------------------------------------------------------
(* The constructors called with arbitrary arguments                         *)

\* Lookbacks, periods and windows a caller may pass: negative, zero, 1 (the
\* largest value the EMA and the reversion window reject) and 2.
CtorInts == {-1, 0, 1, 2}

\* brick_size arguments
CtorBricks == {<<-1, 2>>, <<0, 1>>, <<1, 2>>}

CtorMethods == {"ATR", "Traditional", "Range"}

CtorSources == {"close", "hl", "open"}

HLCtorArgs ==
    [enter_high_lookback : CtorInts, enter_low_lookback : CtorInts,
     exit_high_lookback : CtorInts, exit_low_lookback : CtorInts]

RKCtorArgs ==
    [method : CtorMethods, atr_period : {-1, 0, 1}, brick_size : CtorBricks,
     source : CtorSources, reversal : {-1, 0, 1}]

MMRCtorArgs == [reversion_window : CtorInts \cup {3}]

EMACtorArgs == [period : CtorInts \cup {3}]

\* The attributes each __init__ assigns, in the order of its statements.
HLFields ==
    <<"enter_high_lookback", "enter_low_lookback", "exit_high_lookback",
      "exit_low_lookback", "_max_lookback", "_highs", "_lows", "_next_idx",
      "initialized", "value">>

RKFields ==
    <<"method", "atr_period", "brick_size", "source", "reversal", "tick_size",
      "_prev_close", "_tr_window", "_atr", "_box", "_begin_price", "_trend",
      "_iopen", "_iclose", "initialized", "value">>

MMRFields ==
    <<"reversion_window", "momentum_peak_threshold", "overbought_threshold",
      "entry_amplifier", "exit_amplifier", "_max_len", "_prices", "_volumes",
      "initialized", "value">>

EMAFields == <<"period", "price_type", "_ema", "initialized", "value">>

\* The outcome of an __init__ call.  `failed` is the position of the first
\* validation statement that raises ValueError, 0 when none does.  The
\* validation statements are the first statements of every __init__ and
\* assign nothing, so a call that raises has assigned no attribute.
CtorOutcome(indicator, args, failed, fields) ==
    [indicator |-> indicator, args |-> args,
     raised |-> IF failed > 0 THEN Some("ValueError") ELSE None,
     assigned |-> IF failed > 0 THEN {} ELSE {fields[i] : i \in 1..Len(fields)}]

\* The first check that raises: position in the order of the checks, 0 if none.
FirstFailing(checks) ==
    IF \E i \in 1..Len(checks) : checks[i]
    THEN CHOOSE i \in 1..Len(checks) :
             checks[i] /\ \A j \in 1..(i - 1) : ~checks[j]
    ELSE 0

\* Mutant of HLValidate: the loop stops before exit_low_lookback.
HLValidate_Mut(a) ==
    FirstFailing(<<a.enter_high_lookback <= 0, a.enter_low_lookback <= 0,
                   a.exit_high_lookback <= 0>>)

\* HighLowDailyHistIndicator.__init__: the loop `if lb <= 0: raise ValueError`
HLValidate(a) ==
    FirstFailing(<<a.enter_high_lookback <= 0, a.enter_low_lookback <= 0,
                   a.exit_high_lookback <= 0, a.exit_low_lookback <= 0>>)

\* RenkoTrendNautilusIndicator.__init__: the five `if ...: raise ValueError`
RKValidate(a) ==
    FirstFailing(<<a.method \notin {"ATR", "Traditional"}, a.atr_period <= 0,
                   FracLeq(a.brick_size, <<0, 1>>),
                   a.source \notin {"close", "hl"}, a.reversal <= 0>>)

\* MomentumMeanReversionNautilusIndicator.__init__
MMRValidate(a) == FirstFailing(<<a.reversion_window <= 1>>)

\* EMASignalIndicator.__init__
EMAValidate(a) == FirstFailing(<<a.period <= 1>>)

HLNew(a) ==
    ctor_call' = Some(CtorOutcome("HighLowDailyHistIndicator", a, HLValidate(a), HLFields))

RKNew(a) ==
    ctor_call' = Some(CtorOutcome("RenkoTrendNautilusIndicator", a, RKValidate(a), RKFields))

MMRNew(a) ==
    ctor_call' = Some(CtorOutcome("MomentumMeanReversionNautilusIndicator", a, MMRValidate(a), MMRFields))

EMANew(a) ==
    ctor_call' = Some(CtorOutcome("EMASignalIndicator", a, EMAValidate(a), EMAFields))

HLCtor == \E a \in HLCtorArgs : HLNew(a)

RKCtor == \E a \in RKCtorArgs : RKNew(a)

MMRCtor == \E a \in MMRCtorArgs : MMRNew(a)

EMACtor == \E a \in EMACtorArgs : EMANew(a)

----------------------------------------------------------------------------
(* Specifications: one per component; the other components stay as built.   *)

HLIdle ==
    /\ hl_cfg = [enter_high_lookback |-> 1, enter_low_lookback |-> 1,
                 exit_high_lookback |-> 1, exit_low_lookback |-> 1]
    /\ hl_highs = <<None>>
    /\ hl_lows = <<None>>
    /\ hl_next_idx = 0
    /\ hl_initialized = FALSE
    /\ hl_value = None
    /\ hl_count = 0
    /\ hl_recent = <<>>

DecIdle ==
    /\ strategy = "none"
    /\ BSConstruct(BSConfig(1, 1, 1, 1))
    /\ V2Construct(V2Config(1, 1, 1, 1))
    /\ dec = NoDecision

MMRIdle ==
    /\ MMRConstruct
    /\ mmr_cfg = CHOOSE c \in MMRConfigs : TRUE

RKIdle ==
    /\ RKConstruct
    /\ rk_cfg = CHOOSE c \in RKConfigs : TRUE

EMAIdle ==
    /\ EMAConstruct
    /\ emas_period = CHOOSE n \in EMAPeriods : TRUE

MMIIdle ==
    /\ MMIConstruct
    /\ mmi_cfg = CHOOSE c \in MMIConfigs : TRUE
    /\ mmi_volume_data = CHOOSE v \in MMIBaseVolumes : TRUE

EMCIdle ==
    /\ EMCConstruct
    /\ emc_period = CHOOSE n \in EMCPeriods : TRUE

TickIdle == tick_raised = None

CtorIdle == ctor_call = None

BSDIdle == BSDConstruct

ObsIdle == rk_open = None /\ pf = PFFlat

HLInit == HLConstruct /\ DecIdle /\ MMRIdle /\ RKIdle /\ EMAIdle /\ MMIIdle /\ EMCIdle /\ TickIdle /\ CtorIdle /\ BSDIdle /\ ObsIdle

HLNext ==
    \/ HLFeed /\ UNCHANGED <<decVars, mmrVars, rkVars, emaVars, mmiVars, emcVars, tickVars, ctorVars, bsdVars, obsVars>>
    \/ HLReset /\ UNCHANGED <<decVars, mmrVars, rkVars, emaVars, mmiVars, emcVars, tickVars, ctorVars, bsdVars, obsVars>>

SpecHL == HLInit /\ [][HLNext]_vars

DecInit ==
    /\ HLIdle /\ MMRIdle /\ RKIdle /\ EMAIdle /\ MMIIdle /\ EMCIdle /\ TickIdle
    /\ CtorIdle /\ BSDIdle /\ ObsIdle
    /\ strategy \in {"BreakoutStrategy", "BreakoutV2"}
    /\ \E c \in BSConfigs : BSConstruct(IF strategy = "BreakoutStrategy" THEN c
                                         ELSE CHOOSE d \in BSConfigs : TRUE)
    /\ \E c \in V2Configs : V2Construct(IF strategy = "BreakoutV2" THEN c
                                         ELSE CHOOSE d \in V2Configs : TRUE)
    /\ dec = NoDecision

DecNext ==
    \/ BSDailyBar /\ UNCHANGED <<hlVars, mmrVars, rkVars, emaVars, mmiVars, emcVars, tickVars, ctorVars, bsdVars, obsVars>>
    \/ BSMinuteBar /\ UNCHANGED <<hlVars, mmrVars, rkVars, emaVars, mmiVars, emcVars, tickVars, ctorVars, bsdVars, obsVars>>
    \/ V2DailyMainBar /\ UNCHANGED <<hlVars, mmrVars, rkVars, emaVars, mmiVars, emcVars, tickVars, ctorVars, bsdVars, obsVars>>
    \/ V2DailyReverseBar /\ UNCHANGED <<hlVars, mmrVars, rkVars, emaVars, mmiVars, emcVars, tickVars, ctorVars, bsdVars, obsVars>>
    \/ V2HourBar /\ UNCHANGED <<hlVars, mmrVars, rkVars, emaVars, mmiVars, emcVars, tickVars, ctorVars, bsdVars, obsVars>>
    \/ DecReturn /\ UNCHANGED <<hlVars, mmrVars, rkVars, emaVars, mmiVars, emcVars, tickVars, ctorVars, bsdVars, obsVars>>

SpecDecision == DecInit /\ [][DecNext]_vars

MMRInit == MMRConstruct /\ HLIdle /\ DecIdle /\ RKIdle /\ EMAIdle /\ MMIIdle /\ EMCIdle /\ TickIdle /\ CtorIdle /\ BSDIdle /\ ObsIdle

MMRNext ==
    \/ MMRFeed /\ UNCHANGED <<hlVars, decVars, rkVars, emaVars, mmiVars, emcVars, tickVars, ctorVars, bsdVars, obsVars>>
    \/ MMRReset /\ UNCHANGED <<hlVars, decVars, rkVars, emaVars, mmiVars, emcVars, tickVars, ctorVars, bsdVars, obsVars>>

SpecMMR == MMRInit /\ [][MMRNext]_vars

RKInit == RKConstruct /\ HLIdle /\ DecIdle /\ MMRIdle /\ EMAIdle /\ MMIIdle /\ EMCIdle /\ TickIdle /\ CtorIdle /\ BSDIdle /\ ObsIdle

RKNext ==
    \/ RKFeed /\ UNCHANGED <<hlVars, decVars, mmrVars, emaVars, mmiVars, emcVars, tickVars, ctorVars, bsdVars, obsVars>>
    \/ RKReset /\ UNCHANGED <<hlVars, decVars, mmrVars, emaVars, mmiVars, emcVars, tickVars, ctorVars, bsdVars, obsVars>>

SpecRenko == RKInit /\ [][RKNext]_vars

EMAInit == EMAConstruct /\ HLIdle /\ DecIdle /\ MMRIdle /\ RKIdle /\ MMIIdle /\ EMCIdle /\ TickIdle /\ CtorIdle /\ BSDIdle /\ ObsIdle

EMANext ==
    \/ EMAFeed /\ UNCHANGED <<hlVars, decVars, mmrVars, rkVars, mmiVars, emcVars, tickVars, ctorVars, bsdVars, obsVars>>
    \/ EMAReset /\ UNCHANGED <<hlVars, decVars, mmrVars, rkVars, mmiVars, emcVars, tickVars, ctorVars, bsdVars, obsVars>>

SpecEMA == EMAInit /\ [][EMANext]_vars

\* Any one of the four indicators, exercised alone.
IndInit == HLInit \/ MMRInit \/ RKInit \/ EMAInit

IndNext ==
    \/ MMRIdle /\ RKIdle /\ EMAIdle /\ HLNext
    \/ HLIdle /\ RKIdle /\ EMAIdle /\ MMRNext
    \/ HLIdle /\ MMRIdle /\ EMAIdle /\ RKNext
    \/ HLIdle /\ MMRIdle /\ RKIdle /\ EMANext

SpecIndicators == IndInit /\ [][IndNext]_vars

MMIInit == MMIConstruct /\ HLIdle /\ DecIdle /\ MMRIdle /\ RKIdle /\ EMAIdle /\ EMCIdle /\ TickIdle /\ CtorIdle /\ BSDIdle /\ ObsIdle

MMINext == MMIFeed /\ UNCHANGED <<hlVars, decVars, mmrVars, rkVars, emaVars, emcVars, tickVars, ctorVars, bsdVars, obsVars>>

SpecMMICalculate == MMIInit /\ [][MMINext]_vars

EMCInit == EMCConstruct /\ HLIdle /\ DecIdle /\ MMRIdle /\ RKIdle /\ EMAIdle /\ MMIIdle /\ TickIdle /\ CtorIdle /\ BSDIdle /\ ObsIdle

EMCNext == EMCFeed /\ UNCHANGED <<hlVars, decVars, mmrVars, rkVars, emaVars, mmiVars, tickVars, ctorVars, bsdVars, obsVars>>

SpecEMACalculate == EMCInit /\ [][EMCNext]_vars

\* The indicators exercised one at a time with bars, resets and ticks.  The
\* level indicator runs with four equal lookbacks and the momentum /
\* mean-reversion indicator with one configuration here.  tick_raised is
\* cleared by every call that raises nothing.
TickInit ==
    \/ HLInit /\ hl_cfg.enter_high_lookback = hl_cfg.enter_low_lookback
              /\ hl_cfg.enter_low_lookback = hl_cfg.exit_high_lookback
              /\ hl_cfg.exit_high_lookback = hl_cfg.exit_low_lookback
    \/ RKInit
    \/ EMAInit

TickNone == tick_raised' = None

TickNext ==
    \/ MMRIdle /\ RKIdle /\ EMAIdle /\ HLFeed /\ TickNone
          /\ UNCHANGED <<decVars, mmrVars, rkVars, emaVars, mmiVars, emcVars, ctorVars, bsdVars, obsVars>>
    \/ MMRIdle /\ RKIdle /\ EMAIdle /\ HLReset /\ TickNone
          /\ UNCHANGED <<decVars, mmrVars, rkVars, emaVars, mmiVars, emcVars, ctorVars, bsdVars, obsVars>>
    \/ MMRIdle /\ RKIdle /\ EMAIdle /\ HLTick
          /\ UNCHANGED <<decVars, mmrVars, rkVars, emaVars, mmiVars, emcVars, ctorVars, bsdVars, obsVars>>
    \/ HLIdle /\ RKIdle /\ EMAIdle /\ MMRFeed /\ TickNone
          /\ UNCHANGED <<hlVars, decVars, rkVars, emaVars, mmiVars, emcVars, ctorVars, bsdVars, obsVars>>
    \/ HLIdle /\ RKIdle /\ EMAIdle /\ MMRReset /\ TickNone
          /\ UNCHANGED <<hlVars, decVars, rkVars, emaVars, mmiVars, emcVars, ctorVars, bsdVars, obsVars>>
    \/ HLIdle /\ RKIdle /\ EMAIdle /\ MMRTick
          /\ UNCHANGED <<hlVars, decVars, rkVars, emaVars, mmiVars, emcVars, ctorVars, bsdVars, obsVars>>
    \/ HLIdle /\ MMRIdle /\ EMAIdle /\ RKFeed /\ TickNone
          /\ UNCHANGED <<hlVars, decVars, mmrVars, emaVars, mmiVars, emcVars, ctorVars, bsdVars, obsVars>>
    \/ HLIdle /\ MMRIdle /\ EMAIdle /\ RKReset /\ TickNone
          /\ UNCHANGED <<hlVars, decVars, mmrVars, emaVars, mmiVars, emcVars, ctorVars, bsdVars, obsVars>>
    \/ HLIdle /\ MMRIdle /\ EMAIdle /\ RKTick
          /\ UNCHANGED <<hlVars, decVars, mmrVars, emaVars, mmiVars, emcVars, ctorVars, bsdVars, obsVars>>
    \/ HLIdle /\ MMRIdle /\ RKIdle /\ EMAFeed /\ TickNone
          /\ UNCHANGED <<hlVars, decVars, mmrVars, rkVars, mmiVars, emcVars, ctorVars, bsdVars, obsVars>>
    \/ HLIdle /\ MMRIdle /\ RKIdle /\ EMAReset /\ TickNone
          /\ UNCHANGED <<hlVars, decVars, mmrVars, rkVars, mmiVars, emcVars, ctorVars, bsdVars, obsVars>>
    \/ HLIdle /\ MMRIdle /\ RKIdle /\ EMATick
          /\ UNCHANGED <<hlVars, decVars, mmrVars, rkVars, mmiVars, emcVars, ctorVars, bsdVars, obsVars>>

SpecTicks == TickInit /\ [][TickNext]_vars

\* Constructor calls with valid and invalid arguments.
CtorInit ==
    /\ HLIdle /\ DecIdle /\ MMRIdle /\ RKIdle /\ EMAIdle /\ MMIIdle /\ EMCIdle
    /\ TickIdle /\ CtorIdle /\ BSDIdle /\ ObsIdle

CtorNext ==
    \/ HLCtor /\ UNCHANGED <<hlVars, decVars, mmrVars, rkVars, emaVars, mmiVars, emcVars, tickVars, bsdVars, obsVars>>
    \/ RKCtor /\ UNCHANGED <<hlVars, decVars, mmrVars, rkVars, emaVars, mmiVars, emcVars, tickVars, bsdVars, obsVars>>
    \/ MMRCtor /\ UNCHANGED <<hlVars, decVars, mmrVars, rkVars, emaVars, mmiVars, emcVars, tickVars, bsdVars, obsVars>>
    \/ EMACtor /\ UNCHANGED <<hlVars, decVars, mmrVars, rkVars, emaVars, mmiVars, emcVars, tickVars, bsdVars, obsVars>>

SpecConstructors == CtorInit /\ [][CtorNext]_vars

\* The momentum / mean-reversion indicator under the feed that varies the
\* first bars.
MMRHistoryNext ==
    \/ MMREarlyFeed /\ UNCHANGED <<hlVars, decVars, rkVars, emaVars, mmiVars, emcVars, tickVars, ctorVars, bsdVars, obsVars>>
    \/ MMRReset /\ UNCHANGED <<hlVars, decVars, rkVars, emaVars, mmiVars, emcVars, tickVars, ctorVars, bsdVars, obsVars>>

SpecMMRHistory == MMRInit /\ [][MMRHistoryNext]_vars

\* The momentum / mean-reversion indicator on the fine price grid.
MMRFineInit ==
    /\ HLIdle /\ DecIdle /\ RKIdle /\ EMAIdle /\ MMIIdle /\ EMCIdle /\ TickIdle
    /\ CtorIdle /\ BSDIdle /\ ObsIdle
    /\ \E c \in MMRFineConfigs, base \in MMRFineBases : MMRFineStart(c, base)

MMRFineNext ==
    MMRFineFeed /\ UNCHANGED <<hlVars, decVars, rkVars, emaVars, mmiVars, emcVars, tickVars, ctorVars, bsdVars, obsVars>>

SpecMMRFine == MMRFineInit /\ [][MMRFineNext]_vars

\* The two indicators with guarded divisions, one at a time.
NumInit == MMRInit \/ EMCInit

NumNext ==
    \/ EMCIdle /\ MMRNext
    \/ MMRIdle /\ EMCNext

SpecNumeric == NumInit /\ [][NumNext]_vars

\* BreakoutStrategy fed daily bars only.
BSDInit ==
    /\ HLIdle /\ MMRIdle /\ RKIdle /\ EMAIdle /\ MMIIdle /\ EMCIdle /\ TickIdle
    /\ CtorIdle
    /\ strategy = "BreakoutStrategy"
    /\ \E c \in BSDConfigs : BSConstruct(c)
    /\ V2Construct(V2Config(1, 1, 1, 1))
    /\ dec = NoDecision
    /\ BSDConstruct
    /\ ObsIdle

BSDNext ==
    \/ BSDPrimaryBar /\ UNCHANGED <<hlVars, mmrVars, rkVars, emaVars, mmiVars, emcVars, tickVars, ctorVars, obsVars>>
    \/ BSDOtherBar /\ UNCHANGED <<hlVars, mmrVars, rkVars, emaVars, mmiVars, emcVars, tickVars, ctorVars, obsVars>>

SpecDaily == BSDInit /\ [][BSDNext]_vars

\* The Renko indicator with the open of each handled bar observed.
RKSeenInit == RKInit

RKSeenNext ==
    \/ RKSeenFeed /\ UNCHANGED <<hlVars, decVars, mmrVars, emaVars, mmiVars, emcVars, tickVars, ctorVars, bsdVars>>
    \/ RKSeenReset /\ UNCHANGED <<hlVars, decVars, mmrVars, emaVars, mmiVars, emcVars, tickVars, ctorVars, bsdVars>>

SpecRenkoSeen == RKSeenInit /\ [][RKSeenNext]_vars

\* BreakoutV2 with its two level indicators, which may be reset.
V2LevelsInit ==
    /\ HLIdle /\ MMRIdle /\ RKIdle /\ EMAIdle /\ MMIIdle /\ EMCIdle /\ TickIdle
    /\ CtorIdle /\ BSDIdle /\ ObsIdle
    /\ strategy = "BreakoutV2"
    /\ BSConstruct(BSConfig(1, 1, 1, 1))
    /\ \E c \in V2Configs : V2Construct(c)
    /\ dec = NoDecision

V2LevelsNext ==
    \/ V2DailyMainBar /\ UNCHANGED <<hlVars, mmrVars, rkVars, emaVars, mmiVars, emcVars, tickVars, ctorVars, bsdVars, obsVars>>
    \/ V2DailyReverseBar /\ UNCHANGED <<hlVars, mmrVars, rkVars, emaVars, mmiVars, emcVars, tickVars, ctorVars, bsdVars, obsVars>>
    \/ V2HourBar /\ UNCHANGED <<hlVars, mmrVars, rkVars, emaVars, mmiVars, emcVars, tickVars, ctorVars, bsdVars, obsVars>>
    \/ V2ResetEnter /\ UNCHANGED <<hlVars, mmrVars, rkVars, emaVars, mmiVars, emcVars, tickVars, ctorVars, bsdVars, obsVars>>
    \/ V2ResetExit /\ UNCHANGED <<hlVars, mmrVars, rkVars, emaVars, mmiVars, emcVars, tickVars, ctorVars, bsdVars, obsVars>>
    \/ DecReturn /\ UNCHANGED <<hlVars, mmrVars, rkVars, emaVars, mmiVars, emcVars, tickVars, ctorVars, bsdVars, obsVars>>

SpecV2Levels == V2LevelsInit /\ [][V2LevelsNext]_vars

\* The decision routines with the portfolio of the venue, starting flat.
PFStart(delayed) ==
    /\ HLIdle /\ MMRIdle /\ RKIdle /\ EMAIdle /\ MMIIdle /\ EMCIdle /\ TickIdle
    /\ CtorIdle /\ BSDIdle
    /\ rk_open = None
    /\ pf = [PFFlat EXCEPT !.delayed = delayed]
    /\ strategy \in {"BreakoutStrategy", "BreakoutV2"}
    /\ \E c \in PFBSConfigs : BSConstruct(c)
    /\ \E c \in PFV2Configs : V2Construct(c)
    /\ dec = NoDecision

PFNext ==
    \/ BSDailyBar /\ UNCHANGED <<hlVars, mmrVars, rkVars, emaVars, mmiVars, emcVars, tickVars, ctorVars, bsdVars, obsVars>>
    \/ PFMinuteBar /\ UNCHANGED <<hlVars, mmrVars, rkVars, emaVars, mmiVars, emcVars, tickVars, ctorVars, bsdVars>>
    \/ V2DailyMainBar /\ UNCHANGED <<hlVars, mmrVars, rkVars, emaVars, mmiVars, emcVars, tickVars, ctorVars, bsdVars, obsVars>>
    \/ V2DailyReverseBar /\ UNCHANGED <<hlVars, mmrVars, rkVars, emaVars, mmiVars, emcVars, tickVars, ctorVars, bsdVars, obsVars>>
    \/ PFHourBar /\ UNCHANGED <<hlVars, mmrVars, rkVars, emaVars, mmiVars, emcVars, tickVars, ctorVars, bsdVars>>
    \/ DecReturn /\ UNCHANGED <<hlVars, mmrVars, rkVars, emaVars, mmiVars, emcVars, tickVars, ctorVars, bsdVars, obsVars>>
    \/ PFFill /\ UNCHANGED <<hlVars, mmrVars, rkVars, emaVars, mmiVars, emcVars, tickVars, ctorVars, bsdVars>>

\* Every order is filled before the next decision bar is delivered.
PFSettledInit == PFStart(FALSE)

SpecSettled == PFSettledInit /\ [][PFNext]_vars

\* The venue may deliver further bars before it fills an order.
PFDelayedInit == PFStart(TRUE)

SpecDelayed == PFDelayedInit /\ [][PFNext]_vars

Spec == SpecHL

----------------------------------------------------------------------------
(* Claims about the decision routines                                       *)

\* The kinds of the orders the last decision submitted.
DecKinds == {dec.orders[i].kind : i \in 1..Len(dec.orders)}

\* The price each routine compares with the low levels / the high levels.
DecLowTrigger == IF dec.routine = "BreakoutV2" THEN dec.close ELSE dec.low

DecHighTrigger == IF dec.routine = "BreakoutV2" THEN dec.close ELSE dec.high

\* The exit tests of the two routines, on what the last decision read.
DecPrimaryExitDue ==
    /\ dec.main_pos > 0
    /\ ~IsNone(dec.exit_low)
    /\ DecLowTrigger < Get(dec.exit_low)

DecHedgeExitDue ==
    /\ dec.hedge_pos > 0
    /\ ~IsNone(dec.exit_high)
    /\ DecHighTrigger > Get(dec.exit_high)

\* C2: on every bar a decision routine handles at most one of exit-primary-long,
\* exit-hedge, enter-primary, enter-hedge is taken, and they are considered in
\* that order: a hedge exit only when no primary exit is due, an entry only
\* when no exit is due.
C2_AtMostOneActionInOrder ==
    dec.decided =>
        /\ Len(dec.orders) <= 1
        /\ DecKinds \subseteq {"exit_primary", "exit_hedge", "enter_primary",
                               "enter_hedge"}
        /\ "exit_hedge" \in DecKinds => ~DecPrimaryExitDue
        /\ DecKinds \cap {"enter_primary", "enter_hedge"} # {} =>
               ~DecPrimaryExitDue /\ ~DecHedgeExitDue

\* C2 witness: both positions are open, the bar is below exit_low and above
\* exit_high at once, and only the primary exit is taken.
C2_Witness ==
    /\ dec.decided
    /\ dec.main_pos > 0 /\ dec.hedge_pos > 0
    /\ DecPrimaryExitDue /\ DecHedgeExitDue
    /\ dec.bullish
    /\ DecKinds = {"exit_primary"}
    /\ Len(dec.orders) = 1

\* C3 (as claimed): an entry order is submitted only on a bar where the net
\* positions of the primary and of the hedge instrument are both exactly zero.
C3_EntryOnlyWhenFlat ==
    DecKinds \cap {"enter_primary", "enter_hedge"} # {} =>
        dec.main_pos = 0 /\ dec.hedge_pos = 0

\* C4: an entry order is submitted only when the breakout level is crossed on
\* that bar (high > entry_high for the primary, low < entry_low for the hedge)
\* and the signal agrees (bullish for the primary, bearish for the hedge).
C4_EntryNeedsLevelAndSignal ==
    /\ "enter_primary" \in DecKinds =>
          /\ ~IsNone(dec.entry_high)
          /\ dec.high > Get(dec.entry_high)
          /\ dec.bullish
    /\ "enter_hedge" \in DecKinds =>
          /\ ~IsNone(dec.entry_low)
          /\ dec.low < Get(dec.entry_low)
          /\ dec.bearish

\* C4 witness: a hedge entry on a bar that also crosses entry_high (the level
\* alone, against a bearish signal, opens no primary position).
C4_Witness ==
    /\ DecKinds = {"enter_hedge"}
    /\ ~IsNone(dec.entry_high)
    /\ dec.high > Get(dec.entry_high)
    /\ dec.low < Get(dec.entry_low)
    /\ dec.bearish

\* C5 (as claimed): whenever the primary net position is > 0, exit_low is
\* available and the bar's low is below exit_low, the primary exit is taken;
\* whenever the hedge net position is > 0, the bar's high is above exit_high
\* and the primary exit did not fire, the hedge exit is taken; whatever the
\* signal.
C5_ExitsOnBarLowHigh ==
    dec.decided =>
        /\ (dec.main_pos > 0 /\ ~IsNone(dec.exit_low) /\ dec.low < Get(dec.exit_low))
              => "exit_primary" \in DecKinds
        /\ (dec.hedge_pos > 0 /\ ~IsNone(dec.exit_high)
              /\ dec.high > Get(dec.exit_high) /\ "exit_primary" \notin DecKinds)
              => "exit_hedge" \in DecKinds

\* C5 (amended): whatever the signal, the primary exit is taken whenever the
\* primary net position is > 0, exit_low is available and the routine's trigger
\* price (the bar's low in BreakoutStrategy, its close in BreakoutV2) is below
\* exit_low; the hedge exit is taken whenever the hedge net position is > 0,
\* exit_high is available, the trigger price (high, resp. close) is above
\* exit_high and, in BreakoutStrategy, the primary net position is not > 0.
C5_ExitsIgnoreSignal ==
    dec.decided =>
        /\ DecPrimaryExitDue => "exit_primary" \in DecKinds
        /\ (DecHedgeExitDue
              /\ (dec.routine = "BreakoutStrategy" => dec.main_pos <= 0))
              => "exit_hedge" \in DecKinds

\* C5 witness: a primary exit taken while the signal is bullish.
C5_Witness ==
    /\ dec.decided
    /\ dec.bullish
    /\ DecPrimaryExitDue
    /\ "exit_primary" \in DecKinds

----------------------------------------------------------------------------
(* Claims about HighLowDailyHistIndicator                                   *)

\* The highs (lows) of the n bars before the newest bar of hl_recent.
HLPrecedingHighs(n) ==
    LET k == Len(hl_recent) - 1
    IN  {hl_recent[i].high : i \in (k - n + 1)..k}

HLPrecedingLows(n) ==
    LET k == Len(hl_recent) - 1
    IN  {hl_recent[i].low : i \in (k - n + 1)..k}

\* C1: whenever handle_bar has set `value` on bar k, entry_high is the maximum
\* high of the enter_high_lookback bars immediately before bar k, entry_low the
\* minimum low of the enter_low_lookback bars before it, exit_high the maximum
\* high of the exit_high_lookback bars before it and exit_low the minimum low of
\* the exit_low_lookback bars before it; bar k itself never contributes.
C1_LevelsFromPrecedingBars ==
    ~IsNone(hl_value) =>
        /\ Len(hl_recent) >= HLMaxLookbackOf(hl_cfg) + 1
        /\ Get(hl_value) =
             << Some(SetMax(HLPrecedingHighs(hl_cfg.enter_high_lookback))),
                Some(SetMin(HLPrecedingLows(hl_cfg.enter_low_lookback))),
                Some(SetMax(HLPrecedingHighs(hl_cfg.exit_high_lookback))),
                Some(SetMin(HLPrecedingLows(hl_cfg.exit_low_lookback))) >>

\* C1 witness: a value was reported for a bar whose own high exceeds every
\* reported high level, with windows of different lengths and a wrapped cursor.
C1_Witness ==
    /\ ~IsNone(hl_value)
    /\ hl_cfg.enter_high_lookback = 1
    /\ hl_cfg.exit_high_lookback = 3
    /\ hl_count >= 5
    /\ hl_recent[Len(hl_recent)].high = 2
    /\ Get(Get(hl_value)[1]) = 1
    /\ Get(Get(hl_value)[3]) = 2

\* C9: initialized is false after each of the first max_lookback-1 calls of
\* handle_bar and true from the max_lookback-th call on.
C9_InitializedAtMaxLookback ==
    hl_initialized <=> (hl_count >= HLMaxLookbackOf(hl_cfg))

\* C9 witness: the max_lookback-th call, with max_lookback > 1, has just set the flag.
C9_Witness ==
    /\ HLMaxLookbackOf(hl_cfg) = 3
    /\ hl_count = 3
    /\ hl_initialized

\* C10: after the max_lookback-th call initialized is true while value is still
\* None; after the (max_lookback+1)-th call value is a 4-tuple, and it is never
\* None again until reset.
C10_OneBarLag ==
    LET m == HLMaxLookbackOf(hl_cfg)
    IN  /\ hl_count <= m => IsNone(hl_value)
        /\ hl_count = m => hl_initialized
        /\ hl_count > m => /\ ~IsNone(hl_value)
                           /\ Len(Get(hl_value)) = 4
                           /\ \A i \in 1..4 : ~IsNone(Get(hl_value)[i])

\* C10 witness: initialized with value still None.
C10_Witness ==
    /\ hl_initialized
    /\ IsNone(hl_value)
    /\ hl_count = HLMaxLookbackOf(hl_cfg)

----------------------------------------------------------------------------
(* Claims about MomentumMeanReversionNautilusIndicator                      *)

\* The closes of the reversion window other than the latest one.
MMROtherCloses ==
    LET window == LastN(mmr_prices, mmr_cfg.reversion_window)
    IN  SubSeq(window, 1, Len(window) - 1)

\* The indicator is initialized and the latest close exceeds the mean of the
\* other reversion_window-1 closes by more than overbought_threshold/10000 of
\* that mean:  (c - s/m) / (s/m) > t/10000  with s > 0.
MMROverbought ==
    LET m == mmr_cfg.reversion_window - 1
        s == SeqSum(MMROtherCloses)
        c == mmr_prices[Len(mmr_prices)]
        t == mmr_cfg.overbought_threshold
    IN  /\ mmr_initialized
        /\ Len(mmr_prices) >= mmr_cfg.reversion_window
        /\ s > 0
        /\ (c * m - s) * 10000 * t[2] > t[1] * s

\* -2.0 * exit_amplifier
MMRStrongSell == FracMul(<<-2, 1>>, mmr_cfg.exit_amplifier)

\* C6 (as claimed): on a bar where the latest close is overbought the emitted
\* value is negative and the same for every choice of volumes and momentum
\* inputs.
C6_ReversionNegative ==
    MMROverbought =>
        /\ ~IsNone(mmr_value)
        /\ Get(mmr_value)[1] < 0
        /\ Get(mmr_value) = MMRStrongSell

\* C6 (amended): on a bar where the latest close is overbought the emitted
\* value is -2.0 * exit_amplifier, whatever the volumes and the momentum
\* inputs are; it is negative exactly when exit_amplifier is positive.
C6_ReversionFixedValue ==
    MMROverbought =>
        /\ mmr_value = Some(MMRStrongSell)
        /\ (Get(mmr_value)[1] < 0 <=> mmr_cfg.exit_amplifier[1] > 0)

\* C6 witness: an overbought bar whose momentum signal is not zero and would
\* have given another value, with volumes that are not all equal.
C6_Witness ==
    /\ MMROverbought
    /\ mmr_cfg.exit_amplifier[1] > 0
    /\ Get(mmr_value)[1] < 0
    /\ MMRCalcMomentum(mmr_prices, mmr_volumes) # <<0, 1>>
    /\ FracMul(MMRCalcMomentum(mmr_prices, mmr_volumes), mmr_cfg.entry_amplifier)
          # Get(mmr_value)
    /\ \E i, j \in 1..Len(mmr_volumes) : mmr_volumes[i] # mmr_volumes[j]

----------------------------------------------------------------------------
(* Claims about RenkoTrendNautilusIndicator                                 *)

\* The last bar arrived with a trend, a box and a begin price.
RKWasTrending ==
    /\ rk_last.trend \in {-1, 1}
    /\ ~IsNone(rk_last.box)
    /\ ~IsNone(rk_last.begin_price)

\* price lies at least k boxes beyond begin_price in direction dir, with the
\* box and the begin price as they were when the last bar arrived.
RKBeyond(dir, price, k) ==
    FracLeq(FracScale(k, Get(rk_last.box)),
            FracScale(dir, FracSub(<<price, 1>>, Get(rk_last.begin_price))))

\* The price the continuation test of the last bar's trend reads.
RKContinuationPrice ==
    IF rk_cfg.source = "close" THEN rk_last.close
    ELSE IF rk_last.trend = 1 THEN rk_last.high ELSE rk_last.low

\* The price the reversal test of the last bar's trend reads.
RKReversalPrice ==
    IF rk_cfg.source = "close" THEN rk_last.close
    ELSE IF rk_last.trend = 1 THEN rk_last.low ELSE rk_last.high

\* The last bar flipped the trend.
RKFlipped == rk_last.trend \in {-1, 1} /\ rk_trend = -rk_last.trend

\* C7: the trend flips on a bar only when the reversal price of that bar lies
\* at least box * reversal beyond begin_price against the trend, with box and
\* begin_price as they were at the start of the bar.
C7_FlipNeedsReversalDistance ==
    RKFlipped =>
        /\ RKWasTrending
        /\ RKBeyond(-rk_last.trend, RKReversalPrice, rk_cfg.reversal)

\* C7 witness: a flip on a bar that also changed the box.
C7_Witness ==
    /\ RKFlipped
    /\ rk_cfg.method = "ATR"
    /\ rk_box # rk_last.box

\* C8: on a bar where the continuation condition and the reversal condition
\* both hold, the brick close and begin_price advance in the direction of the
\* trend (by at least one box) and the trend does not flip.
C8_ContinuationBeforeReversal ==
    (/\ RKWasTrending
     /\ RKBeyond(rk_last.trend, RKContinuationPrice, 1)
     /\ RKBeyond(-rk_last.trend, RKReversalPrice, rk_cfg.reversal))
    => /\ rk_trend = rk_last.trend
       /\ rk_begin_price = rk_iclose
       /\ FracLeq(Get(rk_last.box),
                  FracScale(rk_last.trend,
                            FracSub(Get(rk_begin_price), Get(rk_last.begin_price))))

\* C8 witness: a bar with both conditions, taken as a continuation.
C8_Witness ==
    /\ RKWasTrending
    /\ RKBeyond(rk_last.trend, RKContinuationPrice, 1)
    /\ RKBeyond(-rk_last.trend, RKReversalPrice, rk_cfg.reversal)
    /\ rk_cfg.reversal = 2
    /\ rk_trend = rk_last.trend

\* A step of the Renko specification that is a handle_bar call.
RKBarStep == rk_count' = rk_count + 1

\* C11: after every handle_bar call initialized is true iff value is not None
\* iff the trend is not 0, and then value is the trend and is -1 or 1; they are
\* set on the bar that establishes the first trend (not before), and a
\* handle_bar call never unsets them.
C11_ValueIffTrend ==
    [][RKBarStep =>
          /\ rk_initialized' <=> ~IsNone(rk_value')
          /\ rk_initialized' <=> rk_trend' # 0
          /\ rk_initialized' => rk_value' = Some(rk_trend') /\ rk_trend' \in {-1, 1}
          /\ rk_initialized => rk_initialized' /\ ~IsNone(rk_value')]_vars

\* C11 witness: the first trend was established on a bar after two bars
\* that left it unknown.
C11_Witness ==
    /\ rk_count = 3
    /\ rk_last.trend = 0
    /\ ~IsNone(rk_last.box)
    /\ rk_trend # 0
    /\ rk_initialized
    /\ rk_value = Some(rk_trend)

----------------------------------------------------------------------------
(* Claims about every indicator                                             *)

\* C12: in a sequence of handle_bar calls without reset, initialized never goes
\* from true back to false (so it turns true at most once); a step that makes
\* it false is a reset().
C12_InitializedMonotone ==
    [][/\ (hl_initialized /\ ~hl_initialized') => hl_count' = 0
       /\ (mmr_initialized /\ ~mmr_initialized') => mmr_count' = 0
       /\ (rk_initialized /\ ~rk_initialized') => rk_count' = 0
       /\ (emas_initialized /\ ~emas_initialized') => emas_inner'.count = 0]_vars

\* C12 witness: an EMASignalIndicator that stayed initialized over the bars
\* after the one that initialized it.
C12_Witness ==
    /\ emas_initialized
    /\ emas_period = 2
    /\ emas_inner.count = 5

\* The fields of each indicator are as its constructor leaves them.
HLFresh ==
    /\ hl_highs = [i \in 1..HLMaxLookbackOf(hl_cfg) |-> None]
    /\ hl_lows = [i \in 1..HLMaxLookbackOf(hl_cfg) |-> None]
    /\ hl_next_idx = 0
    /\ ~hl_initialized
    /\ IsNone(hl_value)

MMRFresh ==
    /\ mmr_prices = <<>>
    /\ mmr_volumes = <<>>
    /\ ~mmr_initialized
    /\ IsNone(mmr_value)

RKFresh ==
    /\ IsNone(rk_prev_close) /\ rk_tr_window = <<>> /\ IsNone(rk_atr)
    /\ IsNone(rk_box) /\ IsNone(rk_begin_price) /\ rk_trend = 0
    /\ IsNone(rk_iopen) /\ IsNone(rk_iclose)
    /\ ~rk_initialized
    /\ IsNone(rk_value)

EMAFresh ==
    /\ emas_inner = [count |-> 0, value |-> <<0, 1>>, initialized |-> FALSE]
    /\ ~emas_initialized
    /\ IsNone(emas_value)

\* C13: reset() leaves the configuration unchanged and every other field as
\* the constructor leaves it, so the bars fed after a reset give the same
\* initialized and value as on a fresh instance of the same configuration
\* (handle_bar is a function of the fields and the bar).
C13_ResetIsFresh ==
    [][/\ hl_count' = 0 => HLFresh' /\ hl_cfg' = hl_cfg
       /\ mmr_count' = 0 => MMRFresh' /\ mmr_cfg' = mmr_cfg
       /\ rk_count' = 0 => RKFresh' /\ rk_cfg' = rk_cfg
       /\ emas_inner'.count = 0 => EMAFresh' /\ emas_period' = emas_period]_vars

\* C13 witness: an EMASignalIndicator that was fed until initialized, reset,
\* and fed again: one bar short of its period it is not initialized.
C13_Witness ==
    /\ emas_before_reset > emas_period
    /\ emas_inner.count = emas_period - 1
    /\ ~emas_initialized
    /\ IsNone(emas_value)

----------------------------------------------------------------------------
(* Claims about the size of entry orders                                    *)

\* The entry orders of the last decision.
DecEntryOrders ==
    {i \in 1..Len(dec.orders) : dec.orders[i].kind \in {"enter_primary", "enter_hedge"}}

\* The fraction of the balance an entry is said to use: trade_size_pct in
\* BreakoutStrategy, 0.95 in BreakoutV2.
DecFraction == IF dec.routine = "BreakoutStrategy" THEN bs_cfg.trade_size_pct ELSE <<19, 20>>

\* floor(balance * fraction / price), price being the close used for sizing.
DecFloorQuantity ==
    FracFloorDiv(FracScale(Get(dec.balance), DecFraction), Get(dec.size_px))

\* C14: every entry order's quantity is floor(balance * fraction / price),
\* where fraction is trade_size_pct in BreakoutStrategy and 0.95 in
\* BreakoutV2 and price is the close the routine sized with.
C14_EntryQuantityIsFloor ==
    \A i \in DecEntryOrders : dec.orders[i].qty = DecFloorQuantity

\* C15: an entry whose computed quantity is zero or negative submits no
\* order: no entry order of the last decision has a quantity <= 0.
C15_NoEntryOrderAtZeroQuantity ==
    \A i \in DecEntryOrders : dec.orders[i].qty > 0

\* An indicator that feeds the decision of the last bar was not initialized
\* or had no value: the EMA or one of the two level indicators in BreakoutV2,
\* the trend indicator (NaN) in BreakoutStrategy.
DecIndicatorUnavailable ==
    \/ /\ dec.routine = "BreakoutV2"
       /\ ~dec.ema_initialized \/ ~v2_enter.initialized \/ ~v2_exit.initialized
    \/ /\ dec.routine = "BreakoutStrategy"
       /\ IsNone(bs_signals.indicator_value)

\* C16: on a bar where a feeding indicator is not initialized or has no
\* value, the decision routine returns without submitting any order.
C16_NoOrderWhenIndicatorUnavailable ==
    DecIndicatorUnavailable => dec.orders = <<>> /\ ~dec.decided

\* BreakoutV2 sees a flat book and a close above the entry high of
\* initialized level indicators, and only the EMA is not ready.
C16_Witness ==
    /\ dec.routine = "BreakoutV2"
    /\ ~dec.ema_initialized /\ v2_enter.initialized /\ v2_exit.initialized
    /\ dec.main_pos = 0 /\ dec.hedge_pos = 0
    /\ dec.close > Get(v2_enter.value)[1]
    /\ dec.orders = <<>>

----------------------------------------------------------------------------
(* Claims about the level indicator of BreakoutV2                           *)

\* Highest high and lowest low of a sequence of daily bars.
V2LevelsOf(bars) ==
    Some(<< SetMax({bars[i].high : i \in 1..Len(bars)}),
            SetMin({bars[i].low : i \in 1..Len(bars)}) >>)

\* `after` is the indicator once a bar was ingested on top of the bars
\* `before`: its levels are those of the lookback bars that preceded the bar.
V2LevelsPrecede(before, after) ==
    after.initialized =>
        Len(before) = after.lookback /\ after.value = V2LevelsOf(before)

\* The levels of an initialized indicator are those of the last lookback
\* bars fed to it, the most recent one included.
V2LevelsCurrent(fed, ind) ==
    ind.initialized => Len(fed) = ind.lookback /\ ind.value = V2LevelsOf(fed)

\* C17 as stated: the levels on_hour_bar compares against come only from
\* bars strictly before the most recently ingested bar -- whenever a daily
\* bar is ingested, the levels then reported are those of the lookback bars
\* fed before it.
C17_LevelsFromEarlierBars ==
    [][/\ v2_fed'.enter # v2_fed.enter => V2LevelsPrecede(v2_fed.enter, v2_enter')
       /\ v2_fed'.exit # v2_fed.exit => V2LevelsPrecede(v2_fed.exit, v2_exit')]_vars

\* C17, amended: the levels on_hour_bar compares against are the highest
\* high and the lowest low of the last lookback daily bars ingested, the
\* most recently ingested bar included.
C17_LevelsIncludeLatestBar ==
    /\ V2LevelsCurrent(v2_fed.enter, v2_enter)
    /\ V2LevelsCurrent(v2_fed.exit, v2_exit)
    /\ (dec.routine = "BreakoutV2" /\ dec.decided) =>
          /\ <<Get(dec.entry_high), Get(dec.entry_low)>> = Get(V2LevelsOf(v2_fed.enter))
          /\ <<Get(dec.exit_high), Get(dec.exit_low)>> = Get(V2LevelsOf(v2_fed.exit))

\* An hour bar is compared against an entry high that only the most recently
\* ingested daily bar of a two-bar window attains.
C17_Witness ==
    /\ dec.routine = "BreakoutV2" /\ dec.decided
    /\ v2_enter.lookback = 2 /\ Len(v2_fed.enter) = 2
    /\ v2_fed.enter[1].high < v2_fed.enter[2].high
    /\ Get(dec.entry_high) = v2_fed.enter[2].high

----------------------------------------------------------------------------
(* Claims about MomentumMeanReversionIndicator.calculate                    *)

\* The reversion signal of the prices of the last call.
MMIReversion == MMICalculateMeanReversionSignal(mmi_cfg, mmi_price_data)

\* C18: calculate gives reversion priority over momentum -- when the last
\* price deviates from the mean of the preceding prices of the window by more
\* than overbought_threshold / 10000, the value returned is the reversion
\* signal, whose sign is opposite to the deviation, whatever the momentum.
C18_ReversionHasPriority ==
    (~IsNone(mmi_result) /\ Len(mmi_price_data) >= 10) =>
        /\ MMIReversion = <<-2, 1>> => Get(mmi_result)[1] < 0
        /\ MMIReversion = <<2, 1>> => Get(mmi_result)[1] > 0

----------------------------------------------------------------------------
(* Claims about EMAIndicator._calculate_ema                                 *)

\* The standard EMA of a series of at least `period` prices: the simple
\* average of the first `period` prices, then
\* ema = price * k + ema * (1 - k), k = 2 / (period + 1), for every later price.
RECURSIVE EMCStandardEma(_, _)
EMCStandardEma(period, prices) ==
    IF Len(prices) = period THEN Frac(SeqSum(prices), period)
    ELSE LET k == Frac(2, period + 1)
             earlier == EMCStandardEma(period, SubSeq(prices, 1, Len(prices) - 1))
         IN  FracAdd(FracScale(prices[Len(prices)], k),
                     FracMul(earlier, FracSub(<<1, 1>>, k)))

\* C20 as stated: for a series of at least ema_period prices the value is
\* the standard EMA of the whole series.
C20_EmaOfWholeSeries ==
    (~IsNone(emc_ema) /\ Len(emc_prices) >= emc_period) =>
        Get(emc_ema) = EMCStandardEma(emc_period, emc_prices)

\* C20, amended: for a series of at least ema_period prices the value is the
\* standard EMA of the last min(len, 2 * ema_period) prices of the series.
C20_EmaOfLastTwoPeriods ==
    (~IsNone(emc_ema) /\ Len(emc_prices) >= emc_period) =>
        Get(emc_ema) = EMCStandardEma(emc_period, LastN(emc_prices, 2 * emc_period))

\* A series longer than two periods whose value is not the EMA of the whole
\* series.
C20_Witness ==
    /\ ~IsNone(emc_ema)
    /\ Len(emc_prices) > 2 * emc_period
    /\ Get(emc_ema) # EMCStandardEma(emc_period, emc_prices)

----------------------------------------------------------------------------
(* Claims about the box size of the Renko indicator                         *)

\* The current ATR quantized to tick_size, after the bar.
RKQuantizedAtrAfter == Some(RKQuantize(rk_cfg, Get(rk_atr')))

\* C19 as stated: in ATR mode, after every handle_bar call in which the brick
\* close changed -- the bar that sets the first brick close included -- the
\* box equals the current ATR quantized to tick_size.
C19_BoxIsAtrOnEveryBrickClose ==
    [][(RKBarStep /\ rk_cfg.method = "ATR" /\ rk_iclose' # rk_iclose)
          => rk_box' = RKQuantizedAtrAfter]_vars

\* C19, amended: in ATR mode, after every handle_bar call in which the brick
\* close changed from one price to another, the box equals the current ATR
\* quantized to tick_size; on the bar that sets the first brick close the box
\* stays what it was when that bar's bricks were computed.
C19_BoxIsAtrOnLaterBrickClose ==
    [][(RKBarStep /\ rk_cfg.method = "ATR" /\ rk_iclose' # rk_iclose)
          => IF IsNone(rk_iclose)
             THEN rk_box' = (IF IsNone(rk_box) THEN RKQuantizedAtrAfter ELSE rk_box)
             ELSE rk_box' = RKQuantizedAtrAfter]_vars

\* A bar of an established trend closed a new brick (begin_price follows the
\* brick close) and the box took a new size.
C19_Witness ==
    /\ rk_cfg.method = "ATR"
    /\ rk_count > 0
    /\ rk_last.trend # 0 /\ rk_begin_price # rk_last.begin_price
    /\ rk_box # rk_last.box
    /\ rk_box = Some(RKQuantize(rk_cfg, Get(rk_atr)))

----------------------------------------------------------------------------
(* Further claims about HighLowDailyHistIndicator                           *)

\* All four lookbacks are 1.
HLAllOnes ==
    hl_cfg = [enter_high_lookback |-> 1, enter_low_lookback |-> 1,
              exit_high_lookback |-> 1, exit_low_lookback |-> 1]

\* C21: with all four lookbacks equal to 1 the indicator reports exactly the
\* previous bar's high and low -- after the k-th bar (k >= 2) it is
\* initialized and value = (high[k-1], low[k-1], high[k-1], low[k-1]).
C21_LookbackOneIsPreviousBar ==
    (HLAllOnes /\ hl_count >= 2) =>
        LET prev == hl_recent[Len(hl_recent) - 1]
        IN  /\ hl_initialized
            /\ hl_value = Some(<<Some(prev.high), Some(prev.low),
                                 Some(prev.high), Some(prev.low)>>)

\* Three bars were fed and the third differs from the second in both its high
\* and its low: the value is that of the second bar.
C21_Witness ==
    /\ HLAllOnes /\ hl_count = 3
    /\ hl_recent[Len(hl_recent)].high # hl_recent[Len(hl_recent) - 1].high
    /\ hl_recent[Len(hl_recent)].low # hl_recent[Len(hl_recent) - 1].low
    /\ Get(Get(hl_value)[1]) = hl_recent[Len(hl_recent) - 1].high
    /\ Get(Get(hl_value)[2]) = hl_recent[Len(hl_recent) - 1].low

----------------------------------------------------------------------------
(* Claims about the tick handlers                                           *)

\* C22: handle_quote_tick and handle_trade_tick of a bar-only indicator raise
\* a RuntimeError and leave every field of the indicator as it was (buffers,
\* cursor, initialized, value, Renko / ATR state), so the handle_bar calls that
\* follow start from the state they would have had without the tick call.
C22_TickRaisesAndChangesNothing ==
    [][~IsNone(tick_raised') =>
          /\ Get(tick_raised').error = "RuntimeError"
          /\ UNCHANGED <<hlVars, mmrVars, rkVars, emaVars>>]_vars

\* A tick reached a level indicator that had already reported a value, with
\* its write cursor off the first slot.
C22_Witness ==
    /\ ~IsNone(tick_raised)
    /\ Get(tick_raised).indicator = "HighLowDailyHistIndicator"
    /\ hl_initialized /\ ~IsNone(hl_value)
    /\ hl_next_idx # 0

----------------------------------------------------------------------------
(* Claims about the constructors                                            *)

\* The arguments of the last constructor call are an invalid configuration:
\* a lookback <= 0, an EMA period <= 1, a reversion_window <= 1, a Renko
\* method or source outside its enumeration, atr_period <= 0, brick_size <= 0
\* or reversal <= 0.
CtorInvalid ==
    LET call == Get(ctor_call)
        a == call.args
    IN  \/ /\ call.indicator = "HighLowDailyHistIndicator"
           /\ \/ a.enter_high_lookback <= 0 \/ a.enter_low_lookback <= 0
              \/ a.exit_high_lookback <= 0 \/ a.exit_low_lookback <= 0
        \/ /\ call.indicator = "EMASignalIndicator"
           /\ a.period <= 1
        \/ /\ call.indicator = "MomentumMeanReversionNautilusIndicator"
           /\ a.reversion_window <= 1
        \/ /\ call.indicator = "RenkoTrendNautilusIndicator"
           /\ \/ a.method \notin {"ATR", "Traditional"}
              \/ a.source \notin {"close", "hl"}
              \/ a.atr_period <= 0
              \/ a.brick_size[1] <= 0
              \/ a.reversal <= 0

----------------------------------------------------------------------------
(* Claims about numeric degeneracies                                        *)

\* The two five-bar windows of the momentum computation.
MMRRecentPrices == LastN(mmr_prices, 5)

MMRRecentVolumes == LastN(mmr_volumes, 5)

MMROlderPrices == SubSeq(mmr_prices, Len(mmr_prices) - 9, Len(mmr_prices) - 5)

MMROlderVolumes == SubSeq(mmr_volumes, Len(mmr_volumes) - 9, Len(mmr_volumes) - 5)

\* The mean of the reversion window (the latest close excluded) is zero.
MMRZeroMean == SeqSum(MMROtherCloses) = 0

\* The older window has no volume / its volume-weighted price is zero.
MMROlderNoVolume == SeqSum(MMROlderVolumes) = 0

MMROlderVwapZero ==
    IF MMROlderNoVolume THEN SeqSum(MMROlderPrices) = 0
    ELSE SeqDot(MMROlderPrices, MMROlderVolumes) = 0

\* The value of a bar with reversion signal 0 whose older window has no
\* volume and a non-zero mean: the momentum against the unweighted mean.
MMRUnweightedValue ==
    LET older == Frac(SeqSum(MMROlderPrices), 5)
        recent == IF SeqSum(MMRRecentVolumes) > 0
                  THEN Frac(SeqDot(MMRRecentPrices, MMRRecentVolumes),
                            SeqSum(MMRRecentVolumes))
                  ELSE Frac(SeqSum(MMRRecentPrices), 5)
        momentum == FracMul(FracSub(recent, older), <<older[2], older[1]>>)
    IN  FracMul(FracMul(FracMul(momentum, <<1500, 1>>), MMRVolFactor(mmr_volumes)),
                mmr_cfg.entry_amplifier)

\* C24: numeric degeneracies never raise and give a neutral value.  In the
\* momentum / mean-reversion indicator a zero window mean gives reversion
\* signal 0 (the value is the momentum value), a zero older VWAP gives
\* momentum 0, and a five-bar window without volume uses the unweighted mean
\* of its prices; in EMAIndicator.calculate an EMA of 0 gives signal 0.  No
\* call divides by zero.
C24_DegeneraciesAreNeutral ==
    /\ (mmr_initialized /\ mmr_count > 0) =>
          /\ MMRZeroMean =>
                mmr_value = Some(FracMul(MMRCalcMomentum(mmr_prices, mmr_volumes),
                                         mmr_cfg.entry_amplifier))
          /\ (MMRZeroMean /\ MMROlderVwapZero) => mmr_value = Some(<<0, 1>>)
          /\ (MMRZeroMean /\ MMROlderNoVolume /\ ~MMROlderVwapZero) =>
                mmr_value = Some(MMRUnweightedValue)
          /\ \A d \in MMRDenominators(mmr_cfg, mmr_prices, mmr_volumes) : d[1] # 0
    /\ ~IsNone(emc_signal) =>
          /\ (Len(emc_prices) >= emc_period /\ Get(emc_ema)[1] = 0) =>
                emc_signal = Some(<<0, 1>>)
          /\ \A d \in EMCDenominators(emc_period, emc_prices) : d[1] # 0

\* A bar whose reversion window has mean zero while the latest close is not
\* zero, with an older window that has volume and a non-zero VWAP: the value
\* is the momentum value and not zero.
C24_Witness ==
    /\ mmr_initialized /\ mmr_count > 0
    /\ MMRZeroMean
    /\ mmr_prices[Len(mmr_prices)] > 0
    /\ ~MMROlderNoVolume /\ ~MMROlderVwapZero
    /\ Get(mmr_value)[1] # 0

----------------------------------------------------------------------------
(* Claims about the daily signals of BreakoutStrategy                       *)

\* The primary daily bars before the latest one.
BSDEarlierBars == BSDAllButLast(bsd_bars)

\* The lookback bars immediately preceding the latest primary daily bar.
BSDPreceding(lookback) == LastN(BSDEarlierBars, lookback)

BSDHighs(bars) == {bars[i].high : i \in 1..Len(bars)}

BSDLows(bars) == {bars[i].low : i \in 1..Len(bars)}

\* The signals of the latest bar were calculated: the history holds more
\* bars than the indicator window.
BSDCalculated == Len(bsd_bars) >= bs_cfg.window + 1

\* A level is stored once the signals are calculated on a bar preceded by
\* lookback bars, and is then the extreme of exactly these bars.
BSDLevelIs(level, lookback, extreme) ==
    IF BSDCalculated /\ Len(bsd_bars) > lookback
    THEN level = Some(extreme) /\ Len(BSDPreceding(lookback)) = lookback
    ELSE IsNone(level)

\* C25: the daily signals stored after the k-th primary daily bar use only
\* the bars before bar k: indicator.calculate received the closes and the
\* volumes of the bars up to k-1 (the max_history - 1 latest of them), and
\* each level is the max high / min low of exactly the lookback bars
\* immediately preceding bar k, also once the lists have been trimmed.
C25_DailySignalsUseEarlierBars ==
    Len(bsd_bars) >= 1 =>
        /\ BSDCalculated =>
              /\ ~IsNone(bsd_calc_args)
              /\ LET kept == LastN(BSDEarlierBars, BSMaxHistory(bs_cfg) - 1)
                 IN  /\ Get(bsd_calc_args).closes =
                            [i \in 1..Len(kept) |-> kept[i].close]
                     /\ Get(bsd_calc_args).volumes =
                            [i \in 1..Len(kept) |-> kept[i].volume]
        /\ ~BSDCalculated => IsNone(bsd_calc_args) /\ bs_signals = BSNoSignals
        /\ BSDLevelIs(bs_signals.highest_high_long, bs_cfg.long_entry_lookback,
                      SetMax(BSDHighs(BSDPreceding(bs_cfg.long_entry_lookback))))
        /\ BSDLevelIs(bs_signals.lowest_low_long_exit, bs_cfg.long_exit_lookback,
                      SetMin(BSDLows(BSDPreceding(bs_cfg.long_exit_lookback))))
        /\ BSDLevelIs(bs_signals.lowest_low_short, bs_cfg.short_entry_lookback,
                      SetMin(BSDLows(BSDPreceding(bs_cfg.short_entry_lookback))))
        /\ BSDLevelIs(bs_signals.highest_high_short_exit, bs_cfg.short_exit_lookback,
                      SetMax(BSDHighs(BSDPreceding(bs_cfg.short_exit_lookback))))

\* The lists have been trimmed, the latest bar makes a new high and a new
\* low, and the stored levels are the ones of the bars before it.
C25_Witness ==
    /\ Len(bsd_bars) > BSMaxHistory(bs_cfg)
    /\ Len(bs_daily_highs) = BSMaxHistory(bs_cfg)
    /\ bs_cfg.long_exit_lookback = 2
    /\ bsd_bars[Len(bsd_bars)].high = 2 /\ bsd_bars[Len(bsd_bars)].low = 1
    /\ bsd_bars[Len(bsd_bars) - 1].high = 1
    /\ bsd_bars[Len(bsd_bars) - 2].low = 2
    /\ bs_signals.highest_high_long = Some(1)
    /\ bs_signals.lowest_low_long_exit = Some(1)

----------------------------------------------------------------------------
(* Further claims about MomentumMeanReversionNautilusIndicator              *)

\* The two signals of the stored histories.
MMRReversionSignal == MMRCalcMeanReversion(mmr_cfg, mmr_prices)

MMRMomentumSignal == MMRCalcMomentum(mmr_prices, mmr_volumes)

\* C26: once initialized, the value of every bar is reversion_signal *
\* exit_amplifier when the reversion signal is not zero (the momentum signal
\* of the bar does not contribute), and momentum_signal * entry_amplifier
\* when the reversion signal is zero.
C26_ReversionElseMomentum ==
    (mmr_initialized /\ mmr_count > 0) =>
        /\ MMRReversionSignal # <<0, 1>> =>
              mmr_value = Some(FracMul(MMRReversionSignal, mmr_cfg.exit_amplifier))
        /\ MMRReversionSignal = <<0, 1>> =>
              mmr_value = Some(FracMul(MMRMomentumSignal, mmr_cfg.entry_amplifier))

\* A bar with both signals non-zero and a non-zero exit amplifier: the value
\* is the amplified reversion signal, which the momentum would have changed.
C26_Witness ==
    /\ mmr_initialized /\ mmr_count > 0
    /\ MMRReversionSignal # <<0, 1>>
    /\ MMRMomentumSignal # <<0, 1>>
    /\ mmr_cfg.exit_amplifier # <<0, 1>>
    /\ mmr_value = Some(FracMul(MMRReversionSignal, mmr_cfg.exit_amplifier))
    /\ mmr_value # Some(FracMul(MMRMomentumSignal, mmr_cfg.entry_amplifier))

\* The handle_bar call that completes the warm-up.
MMRWarmupCalls == Max2(20, mmr_cfg.reversion_window)

\* C27: the indicator becomes initialized during exactly the
\* max(20, reversion_window)-th handle_bar call, which also sets the first
\* value; before that call it is not initialized and value is None.
C27_InitializedOnWarmupCall ==
    /\ mmr_initialized <=> mmr_count >= MMRWarmupCalls
    /\ ~IsNone(mmr_value) <=> mmr_count >= MMRWarmupCalls

\* The 21st call of an indicator with reversion_window 21 has just returned.
C27_Witness ==
    /\ mmr_cfg.reversion_window = 21
    /\ mmr_count = 21
    /\ mmr_initialized
    /\ ~IsNone(mmr_value)

\* The closes / volumes of the latest n bars handled, oldest first.
MMRLatestCloses(n) ==
    LET bars == LastN(mmr_fed, n) IN [i \in 1..Len(bars) |-> bars[i].close]

MMRLatestVolumes(n) ==
    LET bars == LastN(mmr_fed, n) IN [i \in 1..Len(bars) |-> bars[i].volume]

\* C28: after every handle_bar the price and the volume history have the
\* same length, at most max(20, reversion_window), and hold the closes and
\* the volumes of the most recent bars in arrival order: at full capacity the
\* oldest pair has been evicted.
C28_HistoriesHoldLatestBars ==
    LET capacity == Max2(20, mmr_cfg.reversion_window)
    IN  /\ Len(mmr_prices) = Len(mmr_volumes)
        /\ Len(mmr_prices) <= capacity
        /\ Len(mmr_prices) = Min2(Len(mmr_fed), capacity)
        /\ mmr_prices = MMRLatestCloses(capacity)
        /\ mmr_volumes = MMRLatestVolumes(capacity)

\* The 21st bar has evicted the first, which differed from the second in
\* close and in volume.
C28_Witness ==
    /\ Len(mmr_fed) = 21
    /\ Len(mmr_prices) = 20
    /\ mmr_fed[1].close # mmr_fed[2].close
    /\ mmr_fed[1].volume # mmr_fed[2].volume
    /\ mmr_prices[1] = mmr_fed[2].close
    /\ mmr_volumes[1] = mmr_fed[2].volume

----------------------------------------------------------------------------
(* Claims about the ring buffers of HighLowDailyHistIndicator               *)

\* C29: both ring buffers always have exactly max_lookback slots; _next_idx
\* lies in 0..max_lookback-1 and is the number of bars handled since
\* construction or the last reset, modulo max_lookback; once the indicator
\* is initialized no slot of either buffer is None.
C29_RingBufferShape ==
    LET m == HLMaxLookbackOf(hl_cfg)
    IN  /\ Len(hl_highs) = m /\ Len(hl_lows) = m
        /\ 0 <= hl_next_idx /\ hl_next_idx < m
        /\ hl_next_idx = hl_count % m
        /\ hl_initialized =>
              \A i \in 1..m : ~IsNone(hl_highs[i]) /\ ~IsNone(hl_lows[i])

\* The index has wrapped around a buffer of three slots and is on its way
\* through it a second time.
C29_Witness ==
    /\ HLMaxLookbackOf(hl_cfg) = 3
    /\ hl_count = 5
    /\ hl_next_idx = 2
    /\ hl_initialized
    /\ \A i \in 1..3 : ~IsNone(hl_highs[i]) /\ ~IsNone(hl_lows[i])

----------------------------------------------------------------------------
(* Claims about the fixed Renko box                                         *)

\* max(brick_size, tick_size or 0)
RKFixedBox ==
    IF IsNone(rk_cfg.tick_size) THEN rk_cfg.brick_size
    ELSE FracMax(rk_cfg.brick_size, Get(rk_cfg.tick_size))

\* C30: in Traditional mode the first handle_bar call sets the box to
\* max(brick_size, tick_size or 0) and no later call changes it.
C30_TraditionalBoxIsFixed ==
    rk_cfg.method = "Traditional" =>
        /\ rk_count = 0 => IsNone(rk_box)
        /\ rk_count >= 1 => rk_box = Some(RKFixedBox)

\* A brick size below the tick size: after several bars and at least one
\* change of the brick close the box is still the tick size.
C30_Witness ==
    /\ rk_cfg.method = "Traditional"
    /\ rk_cfg.tick_size = Some(<<1, 1>>)
    /\ rk_cfg.brick_size = <<1, 2>>
    /\ rk_count >= 3
    /\ rk_trend = -1
    /\ rk_last.trend = 1
    /\ rk_box = Some(<<1, 1>>)

----------------------------------------------------------------------------
(* Claims about the warm-up of the ATR Renko                                *)

\* (open_ // box) * box for the open of the last bar and the current box.
RKOpenFloor ==
    FracScale(FracFloorDiv(<<Get(rk_open), 1>>, Get(rk_box)), Get(rk_box))

\* C31: in ATR mode the first atr_period - 1 bars leave box, begin_price,
\* trend, brick open and close, value and initialized as the constructor set
\* them; the atr_period-th bar sets the box and takes begin_price from its
\* own open (the brick it may close on that bar opens there).
C31_NothingBeforeAtrSeeded ==
    rk_cfg.method = "ATR" =>
        /\ rk_count < rk_cfg.atr_period =>
              /\ IsNone(rk_box) /\ IsNone(rk_begin_price) /\ rk_trend = 0
              /\ IsNone(rk_iopen) /\ IsNone(rk_iclose)
              /\ IsNone(rk_value) /\ ~rk_initialized
        /\ rk_count = rk_cfg.atr_period =>
              /\ ~IsNone(rk_box) /\ ~IsNone(rk_begin_price)
              /\ rk_trend = 0 => rk_begin_price = Some(RKOpenFloor)
              /\ rk_trend # 0 => rk_iopen = Some(RKOpenFloor)

\* The third bar of an ATR(3) run: the ATR is seeded at 2, the bar opened
\* at 3 and the first brick begins at 2.
C31_Witness ==
    /\ rk_cfg.method = "ATR" /\ rk_cfg.atr_period = 3
    /\ rk_count = 3
    /\ rk_open = Some(3)
    /\ rk_box = Some(<<2, 1>>)
    /\ rk_begin_price = Some(<<2, 1>>)
    /\ rk_trend = 0 /\ IsNone(rk_value)

----------------------------------------------------------------------------
(* Claims about the reference price of the 'hl' Renko                       *)

\* The last bar started with the trend unknown and had a box.
RKWasUnknown == rk_count > 0 /\ rk_last.trend = 0 /\ ~IsNone(rk_box)

\* begin_price as the last bar used it: the one it found, or the one it took
\* from its own open.
RKBeginUsed ==
    IF IsNone(rk_last.begin_price) THEN RKOpenFloor ELSE Get(rk_last.begin_price)

\* price - begin in boxes of the last bar is at least reversal (dir = 1) or
\* at most -reversal (dir = -1).
RKAwayFromBegin(dir, price) ==
    FracLeq(FracScale(rk_cfg.reversal, Get(rk_box)),
            FracScale(dir, FracSub(<<price, 1>>, RKBeginUsed)))

\* The last bar continued its trend: same trend, begin_price moved.
RKContinued(dir) ==
    /\ RKWasTrending /\ rk_last.trend = dir /\ rk_trend = dir
    /\ rk_begin_price # rk_last.begin_price

\* C32: in 'hl' mode a bar reads its high only when the trend at its start
\* is up and its low otherwise, also while the trend is unknown: the first
\* trend is up only on a bar whose low is box * reversal or more above
\* begin_price and down only on a bar whose low is as much below it; an up
\* trend continues on the high and a down trend on the low.
C32_HlReadsLowUnlessUp ==
    rk_cfg.source = "hl" =>
        /\ (RKWasUnknown /\ rk_trend = 1) => RKAwayFromBegin(1, rk_last.low)
        /\ (RKWasUnknown /\ rk_trend = -1) => RKAwayFromBegin(-1, rk_last.low)
        /\ RKContinued(1) => RKBeyond(1, rk_last.high, 1)
        /\ RKContinued(-1) => RKBeyond(-1, rk_last.low, 1)

\* A first trend established as up on the low of a bar of the 'hl' Renko.
C32_Witness ==
    /\ rk_cfg.source = "hl"
    /\ RKWasUnknown /\ rk_trend = 1
    /\ rk_last.high > rk_last.low
    /\ RKAwayFromBegin(1, rk_last.low)

----------------------------------------------------------------------------
(* Claims about the lookbacks of BreakoutV2                                 *)

\* The last n daily bars of the main instrument, when that many are known.
V2MainBars(n) == LastN(v2_fed.enter, n)

V2MainHigh(n) == SetMax({V2MainBars(n)[i].high : i \in 1..n})

V2MainLow(n) == SetMin({V2MainBars(n)[i].low : i \in 1..n})

\* C33: each configured lookback governs its own level on the daily bars of
\* the main instrument: long-entry level = high of the last long_entry bars,
\* short-entry level = low of the last short_entry bars, long-exit level =
\* low of the last long_exit bars, short-exit level = high of the last
\* short_exit bars (stated for the lookbacks whose bars are on record).
C33_EachLookbackItsOwnLevel ==
    (dec.routine = "BreakoutV2" /\ dec.decided) =>
        /\ Len(v2_fed.enter) >= v2_cfg.long_entry =>
              dec.entry_high = Some(V2MainHigh(v2_cfg.long_entry))
        /\ Len(v2_fed.enter) >= v2_cfg.short_entry =>
              dec.entry_low = Some(V2MainLow(v2_cfg.short_entry))
        /\ Len(v2_fed.enter) >= v2_cfg.long_exit =>
              dec.exit_low = Some(V2MainLow(v2_cfg.long_exit))
        /\ Len(v2_fed.enter) >= v2_cfg.short_exit =>
              dec.exit_high = Some(V2MainHigh(v2_cfg.short_exit))

----------------------------------------------------------------------------
(* Claims about the decision routines and the venue's portfolio             *)

\* The entry orders that wait for their fill (an order for no share buys
\* nothing and is not counted).
PFPendingEntries ==
    {i \in 1..Len(pf.pending) :
        /\ pf.pending[i].kind \in {"enter_primary", "enter_hedge"}
        /\ pf.pending[i].qty > 0}

\* C34: when the venue may deliver further bars before a fill shows in the
\* portfolio, no second entry order is submitted while an earlier entry order
\* is still unfilled: at most one entry order waits at any time.
C34_OneEntryUntilFilled ==
    pf.delayed => Cardinality(PFPendingEntries) <= 1

\* A handler call that read a position of the primary instrument while the
\* regime and the price asked for an entry into the hedge.
PFHedgeSignalWhileLong ==
    /\ dec.decided /\ dec.main_pos > 0 /\ dec.bearish
    /\ ~IsNone(dec.entry_low)
    /\ IF dec.routine = "BreakoutV2" THEN dec.close < Get(dec.entry_low)
       ELSE dec.low < Get(dec.entry_low)

\* C35: starting flat, with every order filled before the next decision bar,
\* the primary and the hedge position are never both positive and neither is
\* ever negative.
C35_OneSideNeverShort ==
    ~pf.delayed =>
        /\ ~(pf.main > 0 /\ pf.hedge > 0)
        /\ pf.main >= 0
        /\ pf.hedge >= 0

\* The primary position is held, the hedge entry is signalled, and nothing is
\* bought.
C35_Witness ==
    /\ ~pf.delayed
    /\ pf.main > 0 /\ pf.hedge = 0
    /\ PFHedgeSignalWhileLong
    /\ \A i \in 1..Len(pf.pending) : pf.pending[i].kind # "enter_hedge"

----------------------------------------------------------------------------
(* Claims about the order of the four levels                                *)

\* C36: whenever the four-lookback level indicator has a value (every bar fed
\* has high >= low), each high level is at least each low level, whatever the
\* four lookbacks: entry_high >= entry_low, entry_high >= exit_low,
\* exit_high >= entry_low and exit_high >= exit_low.
C36_HighLevelsNotBelowLowLevels ==
    ~IsNone(hl_value) =>
        LET v == Get(hl_value)
        IN  \A i \in {1, 3}, j \in {2, 4} :
                /\ ~IsNone(v[i]) /\ ~IsNone(v[j])
                /\ Get(v[i]) >= Get(v[j])

\* A value whose entry_high, read from one bar, meets its exit_low, read from
\* three bars, while the exit_high of three bars lies above the entry_low of
\* one bar.
C36_Witness ==
    /\ ~IsNone(hl_value)
    /\ hl_cfg.enter_high_lookback = 1 /\ hl_cfg.enter_low_lookback = 1
    /\ hl_cfg.exit_high_lookback = 3 /\ hl_cfg.exit_low_lookback = 3
    /\ hl_count >= 5
    /\ Get(Get(hl_value)[1]) = Get(Get(hl_value)[4])
    /\ Get(Get(hl_value)[3]) > Get(Get(hl_value)[2])

----------------------------------------------------------------------------
(* Claims about begin_price and the brick close                             *)

\* C37: after every handle_bar call that leaves a trend established
\* (trend # 0), begin_price equals the current brick close _iclose: on the bar
\* that establishes the first trend, on continuation bars, on reversal bars
\* and on bars where no brick forms.
C37_BeginPriceIsBrickClose ==
    rk_trend # 0 =>
        /\ ~IsNone(rk_iclose)
        /\ rk_begin_price = rk_iclose

\* The bar that established the first trend found a begin_price set by an
\* earlier bar and moved it to the close of its brick.
C37_Witness ==
    /\ rk_count > 1
    /\ rk_last.trend = 0 /\ rk_trend # 0
    /\ ~IsNone(rk_last.begin_price)
    /\ rk_begin_price # rk_last.begin_price
    /\ rk_begin_price = rk_iclose

----------------------------------------------------------------------------
(* Claims about the level indicators of BreakoutV2                          *)

\* C38: the assertion of on_hour_bar that both level indicators have a value
\* never fails: after every handle_bar call and after reset, each
\* single-lookback level indicator that is initialized has a value, and a
\* decision has read both values.
C38_InitializedHasValue ==
    /\ v2_enter.initialized => ~IsNone(v2_enter.value)
    /\ v2_exit.initialized => ~IsNone(v2_exit.value)
    /\ (dec.routine = "BreakoutV2" /\ dec.decided) =>
           /\ ~IsNone(dec.entry_high) /\ ~IsNone(dec.entry_low)
           /\ ~IsNone(dec.exit_high) /\ ~IsNone(dec.exit_low)

\* The call that filled the second slot of a two-bar indicator set its flag
\* and its value, and on_hour_bar passed its assertion.
C38_Witness ==
    /\ dec.routine = "BreakoutV2" /\ dec.decided
    /\ v2_enter.lookback = 2 /\ v2_enter.next_idx = 0
    /\ Len(v2_fed.enter) = 2
    /\ v2_enter.initialized /\ ~IsNone(v2_enter.value)
    /\ v2_exit.initialized /\ ~IsNone(v2_exit.value)

----------------------------------------------------------------------------
(* Claims about the moderate reversion branch                               *)

\* overbought_threshold lies between 0 and 10 basis points, both included.
MMRThresholdUpToTen ==
    /\ FracLeq(<<0, 1>>, mmr_cfg.overbought_threshold)
    /\ FracLeq(mmr_cfg.overbought_threshold, <<10, 1>>)

\* The two values a strong reversion signal emits.
MMRStrongValues ==
    {FracMul(<<2, 1>>, mmr_cfg.exit_amplifier), FracMul(<<-2, 1>>, mmr_cfg.exit_amplifier)}

\* C39: with overbought_threshold between 0 and 10 basis points (the default
\* 2.5 included) the moderate reversion branch is never taken: the reversion
\* signal is 0.0, +2.0 or -2.0, and every emitted value is +-2.0 *
\* exit_amplifier or the momentum signal times entry_amplifier.
C39_NoModerateReversion ==
    (MMRThresholdUpToTen /\ ~IsNone(mmr_value)) =>
        /\ MMRCalcMeanReversion(mmr_cfg, mmr_prices) \in {<<0, 1>>, <<2, 1>>, <<-2, 1>>}
        /\ \/ Get(mmr_value) \in MMRStrongValues
           \/ /\ MMRCalcMeanReversion(mmr_cfg, mmr_prices) = <<0, 1>>
              /\ Get(mmr_value) = FracMul(MMRCalcMomentum(mmr_prices, mmr_volumes),
                                          mmr_cfg.entry_amplifier)

\* A threshold of 10 basis points and a close 15 basis points above the mean:
\* beyond the 10 basis points of the moderate branch, and a strong sell.
C39_Witness ==
    /\ mmr_cfg.overbought_threshold = <<10, 1>>
    /\ ~IsNone(mmr_value)
    /\ MMRDeviation(mmr_cfg, mmr_prices) = <<3, 2000>>
    /\ Get(mmr_value) = FracMul(<<-2, 1>>, mmr_cfg.exit_amplifier)

============================================================================
